---- MODULE Spec2Model ----
(***************************************************************************)
(* Model of the monique hotplug daemon (src/src/monique/daemon.py) with    *)
(* the parts of the output model (models.py) and of the profile matcher    *)
(* (profile_manager.py) that decide what the daemon applies.               *)
(*                                                                         *)
(* Time is counted in ticks of one second; every delay of the code is the  *)
(* code's constant in seconds, the 500 ms debounce rounded up to a tick.   *)
(***************************************************************************)
EXTENDS Integers, Sequences, FiniteSets, TLC

None == "None"

Max(S) == CHOOSE x \in S : \A y \in S : y <= x

(***************************************************************************)
(* Output model: models.py                                                 *)
(***************************************************************************)

\* A description string is the sequence of its pieces: "PNP(", ")", " ",
\* "Unknown" and pieces of other text ("A", "V", ...). No piece of other
\* text contains a space or a parenthesis, so that " Unknown", "PNP(" and
\* ") " occur in the string exactly where their pieces follow one another.
Times(piece, n) ==
    [i \in 1..(n * Len(piece)) |-> piece[((i - 1) % Len(piece)) + 1]]

\* The text b, behind pnp nested "PNP(..V) " vendor wrappers and followed by
\* unk " Unknown" suffixes; b = "" with neither is the empty description.
Desc(b, pnp, unk) ==
    Times(<<"PNP(">>, pnp) \o Times(<<"V", ")", " ">>, pnp)
        \o (IF b = "" THEN <<>> ELSE <<b>>) \o Times(<<" ", "Unknown">>, unk)

EmptyDesc == <<>>

\* description.endswith(" Unknown")
EndsWithUnknown(s) ==
    Len(s) >= 2 /\ s[Len(s) - 1] = " " /\ s[Len(s)] = "Unknown"

\* description[:-8]
StripUnknown(s) == SubSeq(s, 1, Len(s) - 2)

\* description.startswith("PNP(")
StartsWithPNP(s) == Len(s) >= 1 /\ s[1] = "PNP("

\* description.find(") "): the first place where ")" is followed by a
\* space, 0 for the -1 of the code.
FindParen(s) ==
    LET I == {i \in 1..(Len(s) - 1) : s[i] = ")" /\ s[i + 1] = " "}
    IN  IF I = {} THEN 0 ELSE CHOOSE i \in I : \A j \in I : i <= j

\* description[4:paren] + description[paren + 1:]
Unwrap(s) == SubSeq(s, 2, FindParen(s) - 1) \o SubSeq(s, FindParen(s) + 1, Len(s))

\* The second step of __post_init__.
UnwrapPNP(s) == IF StartsWithPNP(s) /\ FindParen(s) # 0 THEN Unwrap(s) ELSE s

\* MonitorConfig.__post_init__: strip one trailing " Unknown", then unwrap
\* one leading "PNP(X) ".
NormalizeDesc(d) ==
    UnwrapPNP(IF EndsWithUnknown(d) THEN StripUnknown(d) ELSE d)

\* The dataclass constructor: the fields the daemon and the matcher read.
\* name is <<connector prefix, index>>, e.g. <<"eDP", 1>> for "eDP-1";
\* geom stands for (x, y, scale, transform, width, height); vrr is the VRR
\* member, VRR.OFF unless given.
MonitorConfig(name, description, enabled, geom) ==
    [name |-> name, description |-> NormalizeDesc(description),
     enabled |-> enabled, geom |-> geom, vrr |-> "OFF"]

\* class VRR(Enum): the value of a member, and the member of a value.
VRRMembers == {"OFF", "ON", "FULLSCREEN"}

VRRValue(e) ==
    CASE e = "OFF" -> 0
      [] e = "ON" -> 1
      [] OTHER -> 2

VRROf(v) == CHOOSE e \in VRRMembers : VRRValue(e) = v

\* str.upper() on the connector prefixes in use.
Upper(prefix) ==
    CASE prefix = "eDP" -> "EDP"
      [] prefix = "lvds" -> "LVDS"
      [] OTHER -> prefix

\* MonitorConfig.is_internal
IsInternal(m) == Upper(m.name[1]) \in {"EDP", "LVDS", "DSI"}

\* MonitorConfig.to_dict: the fields as they are, the enum by its value.
MonitorToDict(m) ==
    [name |-> m.name, description |-> m.description, enabled |-> m.enabled,
     geom |-> m.geom, vrr |-> VRRValue(m.vrr)]

\* MonitorConfig.from_dict: the enum looked up by its value, then the
\* constructor, so the description is normalized once more.
MonitorFromDict(d) ==
    [MonitorConfig(d.name, d.description, d.enabled, d.geom) EXCEPT !.vrr = VRROf(d.vrr)]

Profile(name, monitors) == [name |-> name, monitors |-> monitors]

ProfileToDict(p) ==
    [name |-> p.name,
     monitors |-> [i \in 1..Len(p.monitors) |-> MonitorToDict(p.monitors[i])]]

ProfileFromDict(d) ==
    Profile(d.name, [i \in 1..Len(d.monitors) |-> MonitorFromDict(d.monitors[i])])

\* Profile.fingerprint, as the set the matcher builds from it.
Fingerprint(monitors) ==
    {monitors[i].description : i \in {j \in 1..Len(monitors) :
                                        monitors[j].description # EmptyDesc}}

\* apply_clamshell without its test for an enabled external output.
ClamshellAppliesAlone(monitors) ==
    \E i \in 1..Len(monitors) : IsInternal(monitors[i]) /\ monitors[i].enabled

\* apply_clamshell: the list after the call, and the value returned.
ClamshellApplies(monitors) ==
    /\ \E i \in 1..Len(monitors) : IsInternal(monitors[i]) /\ monitors[i].enabled
    /\ \E i \in 1..Len(monitors) : ~IsInternal(monitors[i]) /\ monitors[i].enabled

ApplyClamshell(monitors) ==
    IF ClamshellApplies(monitors)
    THEN [i \in 1..Len(monitors) |->
            IF IsInternal(monitors[i]) /\ monitors[i].enabled
            THEN [monitors[i] EXCEPT !.enabled = FALSE]
            ELSE monitors[i]]
    ELSE monitors

\* undo_clamshell: the list after the call, and the value returned.
UndoClamshell(monitors) ==
    [i \in 1..Len(monitors) |->
        IF IsInternal(monitors[i]) /\ ~monitors[i].enabled
        THEN [monitors[i] EXCEPT !.enabled = TRUE]
        ELSE monitors[i]]

UndoClamshellChanged(monitors) ==
    \E i \in 1..Len(monitors) : IsInternal(monitors[i]) /\ ~monitors[i].enabled

(***************************************************************************)
(* Profile matcher: profile_manager.py                                     *)
(***************************************************************************)

\* current_state = {m.description: m for m in current_monitors}: a later
\* monitor with the same description replaces an earlier one. The value is
\* the index of the live monitor found, 0 when .get() returns None.
CurrentState(current_monitors, d) ==
    LET I == {i \in 1..Len(current_monitors) : current_monitors[i].description = d}
    IN  IF I = {} THEN 0 ELSE Max(I)

\* current = current_state.get(m.description): the live monitor a profile
\* monitor is compared with (CurrentState is not 0).
Current(current_monitors, m) ==
    current_monitors[CurrentState(current_monitors, m.description)]

\* "m.enabled and not current.enabled and current.is_internal"
DisabledByClamshell(m, current) ==
    m.enabled /\ ~current.enabled /\ IsInternal(current)

\* "m.enabled == current.enabled" with the config comparison that follows.
ConfigMatches(m, current) ==
    \/ DisabledByClamshell(m, current)
    \/ /\ m.enabled = current.enabled
       /\ (~m.enabled \/ m.geom = current.geom)

\* The profile monitors the tie-break loop compares (it runs only when
\* current_monitors is given and non-empty).
Compared(ms, current_monitors) ==
    {i \in 1..Len(ms) : /\ Len(current_monitors) > 0
                        /\ CurrentState(current_monitors, ms[i].description) # 0}

\* The tie-break counters of one profile against the live outputs.
MatchStats(ms, current_monitors) ==
    [missing_enabled |->
        Cardinality({i \in 1..Len(ms) :
            /\ Len(current_monitors) > 0
            /\ CurrentState(current_monitors, ms[i].description) = 0
            /\ ms[i].enabled}),
     total_compared  |-> Cardinality(Compared(ms, current_monitors)),
     ext_enabled     |->
        Cardinality({i \in Compared(ms, current_monitors) :
            ms[i].enabled /\ ~IsInternal(Current(current_monitors, ms[i]))}),
     enabled_matches |->
        Cardinality({i \in Compared(ms, current_monitors) :
            \/ DisabledByClamshell(ms[i], Current(current_monitors, ms[i]))
            \/ ms[i].enabled = Current(current_monitors, ms[i]).enabled}),
     config_matches  |->
        Cardinality({i \in Compared(ms, current_monitors) :
            ConfigMatches(ms[i], Current(current_monitors, ms[i]))})]

\* score = intersection / union, kept as the pair (intersection, union).
Jaccard(current_set, profile_set) ==
    [num |-> Cardinality(current_set \cap profile_set),
     den |-> Cardinality(current_set \cup profile_set)]

\* The matcher without its similarity floor.
NeverBelowFloor(score) == FALSE

\* score < 0.5
BelowFloor(score) == 2 * score.num < score.den

\* The exact_config filter.
ExactRejects(st, current_monitors) ==
    /\ Len(current_monitors) > 0
    /\ st.total_compared > 0
    /\ \/ st.missing_enabled > 0
       \/ st.enabled_matches # st.total_compared
       \/ st.config_matches # st.total_compared

\* The sort on the score alone.
KeyGreaterScoreOnly(a, b) ==
    a.score.num * b.score.den > b.score.num * a.score.den

\* The sort key (score, -missing_enabled, ext_enabled, enabled_matches,
\* config_matches) of candidate a is strictly greater than that of b.
KeyGreater(a, b) ==
    LET sa == a.score.num * b.score.den
        sb == b.score.num * a.score.den
    IN  \/ sa > sb
        \/ /\ sa = sb
           /\ \/ a.st.missing_enabled < b.st.missing_enabled
              \/ /\ a.st.missing_enabled = b.st.missing_enabled
                 /\ \/ a.st.ext_enabled > b.st.ext_enabled
                    \/ /\ a.st.ext_enabled = b.st.ext_enabled
                       /\ \/ a.st.enabled_matches > b.st.enabled_matches
                          \/ /\ a.st.enabled_matches = b.st.enabled_matches
                             /\ a.st.config_matches > b.st.config_matches

\* One entry of the candidates list: the score and the tie-break counters.
Candidate(profile, current_set, current_monitors) ==
    [score |-> Jaccard(current_set, Fingerprint(profile.monitors)),
     st |-> MatchStats(profile.monitors, current_monitors),
     empty |-> Fingerprint(profile.monitors) = {}]

\* The profiles that enter the candidates list.
Kept(cands, current_monitors, exact_config) ==
    {i \in 1..Len(cands) :
        /\ ~cands[i].empty
        /\ ~BelowFloor(cands[i].score)
        /\ ~(exact_config /\ ExactRejects(cands[i].st, current_monitors))}

\* candidates.sort(key=..., reverse=True); candidates[0]: the sort is
\* stable, so among equal keys the first in file order wins.
First(cands, kept) ==
    CHOOSE i \in kept : \A j \in kept :
        /\ ~KeyGreater(cands[j], cands[i])
        /\ (j < i => KeyGreater(cands[i], cands[j]))

\* "if not current_fingerprint: return None", and None again when the
\* candidates list is empty.
BestOf(cands, kept, current_set) ==
    IF current_set = {} \/ kept = {} THEN 0 ELSE First(cands, kept)

Candidates(profiles, current_set, current_monitors) ==
    [i \in 1..Len(profiles) |-> Candidate(profiles[i], current_set, current_monitors)]

BestAmong(cands, current_set, current_monitors, exact_config) ==
    BestOf(cands, Kept(cands, current_monitors, exact_config), current_set)

\* ProfileManager.find_best_match(current_fingerprint, current_monitors,
\* exact_config=...) over the profiles list_all returns, in file order. The
\* fingerprint and the live outputs are separate arguments; an absent list
\* (None) and an empty one are the same to every test the code makes, and
\* both are <<>> here. The value is the index of the profile returned, 0
\* for None.
FindBestMatch(current_fingerprint, profiles, current_monitors, exact_config) ==
    BestAmong(Candidates(profiles, current_fingerprint, current_monitors),
              current_fingerprint, current_monitors, exact_config)

(***************************************************************************)
(* The daemon's decision: daemon.py, _apply_best_profile                   *)
(***************************************************************************)

DEBOUNCE_MS == 500
UDEV_SETTLE_S == 5
NIRI_DEBOUNCE_MS == 3000
NIRI_SETTLE_S_DEFAULT == 15
NIRI_SETTLE_BASE == 10
\* "if elapsed < 30" of the loop detection, in seconds.
LOOP_WINDOW_S == 30
\* "await asyncio.sleep(5)" of the outer loop, in seconds.
RETRY_SLEEP_S == 5

\* A delay in ticks of one second, rounded up.
Ticks(ms) == (ms + 999) \div 1000

\* time.monotonic() - self._last_apply_time is kept as one number, the
\* ticks since the last apply, saturated at the largest threshold the code
\* compares it with (the loop window; both settle times are shorter).
ElapsedCap == Ticks(LOOP_WINDOW_S * 1000)

\* The step "Safety: ensure at least one actually-connected monitor
\* remains enabled": the layout after it, and whether one was recovered.
EnabledConnected(monitors, connected_descs) ==
    {i \in 1..Len(monitors) :
        monitors[i].enabled /\ monitors[i].description \in connected_descs}

ConnectedInternals(monitors, connected_descs) ==
    {i \in 1..Len(monitors) :
        IsInternal(monitors[i]) /\ monitors[i].description \in connected_descs}

ConnectedAny(monitors, connected_descs) ==
    {i \in 1..Len(monitors) : monitors[i].description \in connected_descs}

Min(S) == CHOOSE x \in S : \A y \in S : x <= y

\* The safety step taken for granted: no check that an output was recovered.
SafetyAssumed(monitors, connected_descs) == TRUE

SafetyRecovered(monitors, connected_descs) ==
    \/ EnabledConnected(monitors, connected_descs) # {}
    \/ ConnectedInternals(monitors, connected_descs) # {}
    \/ ConnectedAny(monitors, connected_descs) # {}

\* The safety step left out.
SafetyStepSkipped(monitors, connected_descs) == monitors

\* The safety step with the "break" of its second loop left out: without a
\* connected internal output every connected output is enabled.
SafetyStepNoBreak(monitors, connected_descs) ==
    IF EnabledConnected(monitors, connected_descs) # {}
    THEN monitors
    ELSE IF ConnectedInternals(monitors, connected_descs) # {}
    THEN [i \in 1..Len(monitors) |->
            IF i \in ConnectedInternals(monitors, connected_descs)
            THEN [monitors[i] EXCEPT !.enabled = TRUE]
            ELSE monitors[i]]
    ELSE [i \in 1..Len(monitors) |->
            IF i \in ConnectedAny(monitors, connected_descs)
            THEN [monitors[i] EXCEPT !.enabled = TRUE]
            ELSE monitors[i]]

SafetyStep(monitors, connected_descs) ==
    IF EnabledConnected(monitors, connected_descs) # {}
    THEN monitors
    ELSE IF ConnectedInternals(monitors, connected_descs) # {}
    THEN [i \in 1..Len(monitors) |->
            IF i \in ConnectedInternals(monitors, connected_descs)
            THEN [monitors[i] EXCEPT !.enabled = TRUE]
            ELSE monitors[i]]
    ELSE IF ConnectedAny(monitors, connected_descs) # {}
    THEN [monitors EXCEPT ![Min(ConnectedAny(monitors, connected_descs))].enabled = TRUE]
    ELSE monitors

\* The clamshell step on a matched profile: the clone made by
\* Profile.from_dict(profile.to_dict()), undo_clamshell, and, unless the lid
\* is known to be open, apply_clamshell when an enabled external output of
\* the clone is connected.
ConnectedExternals(monitors, connected_descs) ==
    {i \in 1..Len(monitors) :
        /\ ~IsInternal(monitors[i])
        /\ monitors[i].enabled
        /\ monitors[i].description \in connected_descs}

\* The clamshell step without its test of the lid.
ClamshellOnAnyLid(undone, connected_descs, lid) ==
    IF ConnectedExternals(undone, connected_descs) # {}
    THEN ApplyClamshell(undone)
    ELSE undone

ClamshellOn(undone, connected_descs, lid) ==
    IF lid # "False" /\ ConnectedExternals(undone, connected_descs) # {}
    THEN ApplyClamshell(undone)
    ELSE undone

ClamshellStep(profile, connected_descs, lid) ==
    ClamshellOn(UndoClamshell(ProfileFromDict(ProfileToDict(profile)).monitors),
                connected_descs, lid)

\* What one run of _apply_best_profile decides, from the outputs it
\* queried and the daemon's fields. kind is
\*   "same"      the matched profile is the last applied one, skipped
\*   "loop"      loop detected, skipped
\*   "unsafe"    no connected output can be enabled, skipped
\*   "profile"   the matched profile is applied (layout after both steps)
\*   "undo"      the synthesized clamshell-undo layout is applied
\*   "emergency" the synthesized emergency-recovery layout is applied
\*   "nomatch"   nothing matched and nothing is applied
Decision(kind, name, layout) == [kind |-> kind, name |-> name, layout |-> layout]

\* The matched branch without its loop detection.
DecideMatchedNoLoop(profile, processed, connected_descs, force, last_name, prev_name, elapsed) ==
    IF ~force /\ profile.name = last_name
    THEN Decision("same", profile.name, <<>>)
    ELSE IF ~SafetyRecovered(processed, connected_descs)
    THEN Decision("unsafe", profile.name, <<>>)
    ELSE Decision("profile", profile.name, SafetyStep(processed, connected_descs))

\* The matched branch with "not force" left out of the same-profile rule.
DecideMatchedForceBlind(profile, processed, connected_descs, force, last_name, prev_name, elapsed) ==
    IF profile.name = last_name
    THEN Decision("same", profile.name, <<>>)
    ELSE IF ~force /\ profile.name = prev_name /\ elapsed < Ticks(LOOP_WINDOW_S * 1000)
    THEN Decision("loop", profile.name, <<>>)
    ELSE IF ~SafetyRecovered(processed, connected_descs)
    THEN Decision("unsafe", profile.name, <<>>)
    ELSE Decision("profile", profile.name, SafetyStep(processed, connected_descs))

\* The matched branch with a loop detection that has no time limit.
DecideMatchedLoopForever(profile, processed, connected_descs, force, last_name, prev_name, elapsed) ==
    IF ~force /\ profile.name = last_name
    THEN Decision("same", profile.name, <<>>)
    ELSE IF ~force /\ profile.name = prev_name
    THEN Decision("loop", profile.name, <<>>)
    ELSE IF ~SafetyRecovered(processed, connected_descs)
    THEN Decision("unsafe", profile.name, <<>>)
    ELSE Decision("profile", profile.name, SafetyStep(processed, connected_descs))

\* The branch "if profile:" on the matched profile.
DecideMatched(profile, processed, connected_descs, force, last_name, prev_name, elapsed) ==
    IF ~force /\ profile.name = last_name
    THEN Decision("same", profile.name, <<>>)
    ELSE IF ~force /\ profile.name = prev_name /\ elapsed < Ticks(LOOP_WINDOW_S * 1000)
    THEN Decision("loop", profile.name, <<>>)
    ELSE IF ~SafetyRecovered(processed, connected_descs)
    THEN Decision("unsafe", profile.name, <<>>)
    ELSE Decision("profile", profile.name, SafetyStep(processed, connected_descs))

\* The branch "else:" when nothing matched.
AllDisabled(monitors) ==
    Len(monitors) > 0 /\ \A i \in 1..Len(monitors) : ~monitors[i].enabled

HasDisabledInternal(monitors) ==
    \E i \in 1..Len(monitors) : IsInternal(monitors[i]) /\ ~monitors[i].enabled

EmergencyLayout(monitors) ==
    [i \in 1..Len(monitors) |->
        IF IsInternal(monitors[i])
        THEN [monitors[i] EXCEPT !.enabled = TRUE]
        ELSE monitors[i]]

\* The branch "else:" without its emergency recovery.
DecideUnmatchedNoEmergency(monitors, clamshell, lid) ==
    IF clamshell /\ lid = "False" /\ HasDisabledInternal(monitors)
    THEN IF UndoClamshellChanged(monitors)
         THEN Decision("undo", "clamshell-undo", UndoClamshell(monitors))
         ELSE Decision("nomatch", None, <<>>)
    ELSE Decision("nomatch", None, <<>>)

DecideUnmatched(monitors, clamshell, lid) ==
    IF clamshell /\ lid = "False" /\ HasDisabledInternal(monitors)
    THEN IF UndoClamshellChanged(monitors)
         THEN Decision("undo", "clamshell-undo", UndoClamshell(monitors))
         ELSE Decision("nomatch", None, <<>>)
    ELSE IF AllDisabled(monitors) /\ HasDisabledInternal(monitors)
    THEN Decision("emergency", "emergency-recovery", EmergencyLayout(monitors))
    ELSE Decision("nomatch", None, <<>>)

\* The layout of the matched profile after the clamshell step.
Processed(profile, connected_descs, clamshell, lid) ==
    IF clamshell THEN ClamshellStep(profile, connected_descs, lid) ELSE profile.monitors

DecideOn(pi, monitors, force, profiles, clamshell, lid, last_name, prev_name, elapsed) ==
    IF pi # 0
    THEN DecideMatched(profiles[pi],
                       Processed(profiles[pi], Fingerprint(monitors), clamshell, lid),
                       Fingerprint(monitors), force, last_name, prev_name, elapsed)
    ELSE DecideUnmatched(monitors, clamshell, lid)

Decide(monitors, force, profiles, clamshell, lid, last_name, prev_name, elapsed) ==
    DecideOn(FindBestMatch(Fingerprint(monitors), profiles, monitors, FALSE), monitors, force, profiles,
             clamshell, lid, last_name, prev_name, elapsed)

(***************************************************************************)
(* The machine the daemon runs on: three physical outputs, one compositor  *)
(* and a profile directory.                                                *)
(***************************************************************************)

\* Bounds of the model.
MaxEvents == 2
MaxMoves == 2

Outs == {1, 2, 3}

\* 1 is the laptop panel eDP-1, 2 is DP-1, 3 is HDMI-A-1.
OutName(o) ==
    CASE o = 1 -> <<"eDP", 1>>
      [] o = 2 -> <<"DP", 1>>
      [] OTHER -> <<"HDMI", 1>>

\* The description the compositor reports: "A", "B Unknown" and
\* "C Unknown Unknown".
OutText(o) == IF o = 1 THEN "A" ELSE IF o = 2 THEN "B" ELSE "C"

OutRawDesc(o) == Desc(OutText(o), 0, o - 1)

\* The profile directory, as the JSON files hold it, in file-name order.
\* Directory 1: docked, laptop, tv. Directory 2: alloff. Directory 3: docked.
DiskMonitor(o, unk, enabled) ==
    [name |-> OutName(o), description |-> Desc(OutText(o), 0, unk),
     enabled |-> enabled, geom |-> 0, vrr |-> 0]

ProfileFiles(dir) ==
    IF dir = 1
    THEN << [name |-> "docked",
             monitors |-> <<DiskMonitor(1, 0, TRUE), DiskMonitor(2, 0, TRUE)>>],
            [name |-> "laptop", monitors |-> <<DiskMonitor(1, 0, TRUE)>>],
            [name |-> "tv", monitors |-> <<DiskMonitor(3, 2, TRUE)>>] >>
    ELSE IF dir = 2
    THEN << [name |-> "alloff",
             monitors |-> <<DiskMonitor(3, 2, FALSE), DiskMonitor(1, 0, FALSE),
                            DiskMonitor(2, 0, FALSE)>>] >>
    ELSE << [name |-> "docked",
             monitors |-> <<DiskMonitor(1, 0, TRUE), DiskMonitor(2, 0, TRUE)>>] >>

\* ProfileManager.list_all
ListAll(dir) ==
    [i \in 1..Len(ProfileFiles(dir)) |-> ProfileFromDict(ProfileFiles(dir)[i])]

RECURSIVE Ascending(_)
Ascending(S) ==
    IF S = {} THEN <<>> ELSE <<Min(S)>> \o Ascending(S \ {Min(S)})

VARIABLES
    \* the machine
    conn,            \* the outputs plugged in
    liveOn,          \* the compositor's enabled flag of each output
    reach,           \* the compositor's sockets answer
    lidReal,         \* the lid is closed
    env_marker,      \* the compositor's environment variable is set
    backend,         \* the compositor installed: "Hyprland", "Sway", "Niri"
    HAS_PYUDEV,
    clamshell_mode,  \* settings: clamshell_mode
    profile_dir,     \* which profile directory
    \* MonitorDaemon's fields
    debounce_handle, \* id of the TimerHandle held, 0 for None
    since_apply,     \* ticks since _last_apply_time, saturated
    last_applied_profile,
    prev_applied_profile,
    using_udev,
    ipc,
    lid_closed,      \* "None", "True", "False"
    \* the event loop
    pc,              \* where run()/_listen() is suspended
    sleep_left,
    timers,          \* call_later entries not yet fired or cancelled
    tasks,           \* ensure_future(_apply_best_profile) not yet started
    lid_calls,       \* call_soon_threadsafe(_schedule_apply) not yet run
    runs,            \* _apply_best_profile runs started and not ended
    events,          \* hotplug events the stream has buffered
    stream_ok,       \* the event socket of this session is connected
    lid_monitor,     \* the lid-monitor thread: "starting", "running"
    \* bookkeeping of the model
    fx,              \* what the run that has just ended did
    pending_ev,      \* hotplug events consumed and not yet followed by a query
    since_ev,        \* ticks since the last hotplug event was consumed, saturated
    burst_ran,       \* a timer-started run has queried since that event
    moves,           \* moves of the machine so far (plugs, lid, compositor, failed writes)
    \* the calls of one function harness (models.py, profile_manager.py,
    \* utils.py, sway.py, the migration of daemon.py)
    fn,              \* the function called, "none" before the call
    fn_in,           \* its arguments
    fn_out           \* what it returned and what it left in its argument

world == <<conn, liveOn, reach, lidReal, env_marker>>
setup == <<backend, HAS_PYUDEV, clamshell_mode, profile_dir>>
fields == <<debounce_handle, since_apply, last_applied_profile,
            prev_applied_profile, using_udev, ipc, lid_closed>>
loop == <<pc, sleep_left, timers, tasks, lid_calls, runs, events, stream_ok>>
hist == <<fx, pending_ev, since_ev, burst_ran>>
budget == <<moves>>
pure == <<fn, fn_in, fn_out>>
daemon == <<world, setup, fields, loop, lid_monitor, hist, budget>>
vars == <<daemon, pure>>

\* get_monitors(): one MonitorConfig per plugged output, built from what the
\* compositor reports.
GetMonitors ==
    [i \in 1..Cardinality(conn) |->
        MonitorConfig(OutName(Ascending(conn)[i]), OutRawDesc(Ascending(conn)[i]),
                      liveOn[Ascending(conn)[i]], 0)]

\* The compositor reloading the written config: each plugged output named
\* in the layout (by its description) takes the layout's enabled flag.
Adopt(layout) ==
    [o \in Outs |->
        LET d == NormalizeDesc(OutRawDesc(o))
            I == {i \in 1..Len(layout) : layout[i].description = d}
        IN  IF o \in conn /\ I # {} THEN layout[Max(I)].enabled ELSE liveOn[o]]

\* The debounce delay of the mode in use, settle windows apart: "debounce_ms"
\* of _schedule_apply.
ModeDebounce ==
    IF backend = "Niri" /\ ~HAS_PYUDEV THEN Ticks(NIRI_DEBOUNCE_MS) ELSE Ticks(DEBOUNCE_MS)

IdleFx == [kind |-> "idle", force |-> FALSE, name |-> None, handed |-> <<>>,
           called |-> FALSE, snap |-> FALSE, wrote |-> FALSE, reload |-> FALSE,
           done |-> FALSE, raised |-> FALSE, ws |-> <<>>, moved |-> {}, mons |-> <<>>,
           pre_last |-> None, pre_prev |-> None, pre_since |-> 0, sess |-> "live"]

DaemonInit ==
    /\ conn \in SUBSET Outs
    /\ liveOn \in [Outs -> BOOLEAN]
    /\ \A o \in Outs : ~liveOn[o] => o \in conn /\ o = 1
    /\ reach \in BOOLEAN
    /\ lidReal \in BOOLEAN
    /\ env_marker = FALSE
    /\ backend \in {"Hyprland", "Sway", "Niri"}
    /\ HAS_PYUDEV \in BOOLEAN
    /\ (backend # "Niri" => HAS_PYUDEV = FALSE)
    /\ clamshell_mode \in BOOLEAN
    /\ profile_dir \in {1, 2, 3}
    /\ debounce_handle = 0
    /\ since_apply = ElapsedCap
    /\ last_applied_profile = None
    /\ prev_applied_profile = None
    /\ using_udev = FALSE
    /\ ipc = None
    /\ lid_closed = "None"
    /\ pc = "detect"
    /\ sleep_left = 0
    /\ timers = {}
    /\ tasks = <<>>
    /\ lid_calls = 0
    /\ runs = <<>>
    /\ events = 0
    /\ stream_ok = FALSE
    /\ lid_monitor = "starting"
    /\ fx = IdleFx
    /\ pending_ev = 0
    /\ since_ev = ModeDebounce
    /\ burst_ran = FALSE
    /\ moves = 0

\* No function call is under study while the daemon runs.
NoInput == [monitors |-> <<>>, profiles |-> <<>>, exact_config |-> FALSE,
            with_monitors |-> TRUE]

NoOutput == [monitors |-> <<>>, ret |-> 0]

Init ==
    /\ DaemonInit
    /\ fn = "none"
    /\ fn_in = NoInput
    /\ fn_out = NoOutput

(***************************************************************************)
(* daemon.py: _schedule_apply                                              *)
(***************************************************************************)

\* "if self._debounce_handle: self._debounce_handle.cancel()": the entry the
\* handle names leaves the loop's schedule (a fired handle names none).
CancelPending(scheduled, handle) == {t \in scheduled : t.id # handle}

\* The delay given to loop.call_later, in ticks.
Delay(udev, kind, elapsed) ==
    IF udev
    THEN IF elapsed < Ticks(UDEV_SETTLE_S * 1000)
         THEN Ticks(UDEV_SETTLE_S * 1000) - elapsed
         ELSE Ticks(DEBOUNCE_MS)
    ELSE IF kind = "Niri"
    THEN IF elapsed < Ticks((NIRI_SETTLE_BASE + NIRI_SETTLE_S_DEFAULT) * 1000)
         THEN Ticks((NIRI_SETTLE_BASE + NIRI_SETTLE_S_DEFAULT) * 1000) - elapsed
         ELSE Ticks(NIRI_DEBOUNCE_MS)
    ELSE Ticks(DEBOUNCE_MS)

FreshId(scheduled, handle) ==
    Min({i \in 1..(Cardinality(scheduled) + 2) :
            i # handle /\ \A t \in scheduled : t.id # i})

\* A listening session is running (between _listen's start and its end).
InSession == pc \in {"forced", "connect", "listen"}

\* _schedule_apply(ipc): cancel the held handle, arm a new timer, hold it.
\* by is the caller: "event" for a hotplug event of the stream, "lid" for
\* the callback of the lid monitor.
ScheduleApply(by) ==
    LET kept == CancelPending(timers, debounce_handle)
        id == FreshId(kept, debounce_handle)
    IN  /\ timers' = kept \cup
                     {[id |-> id, left |-> Delay(using_udev, ipc, since_apply),
                       sess |-> IF InSession THEN "live" ELSE "out", by |-> by]}
        /\ debounce_handle' = id

\* The finally block of run(): cancel the held handle and drop it.
FinallyCancel ==
    /\ timers' = CancelPending(timers, debounce_handle)
    /\ debounce_handle' = 0

\* A listening session ends: the timers it armed now belong to an ended
\* session (a timer armed outside any session, by a lid notification during
\* the retry sleep, is "out").
Ended(scheduled) ==
    {[t EXCEPT !.sess = IF t.sess = "live" THEN "ended" ELSE t.sess] : t \in scheduled}

(***************************************************************************)
(* The event loop. _apply_best_profile holds no await, so a run that has   *)
(* started keeps the loop until it ends.                                   *)
(***************************************************************************)

\* _apply_best_profile with an await between its query and its end.
ApplySuspends == TRUE

\* Whether _apply_best_profile suspends between its query and its end.
ApplyAwaits == FALSE

LoopFree == ApplyAwaits \/ runs = <<>>

\* The first lines of _apply_best_profile: the output query.
StartRun(force, sess) ==
    runs' = Append(runs, [force |-> force, sess |-> sess, ok |-> reach,
                          mons |-> IF reach THEN GetMonitors ELSE <<>>])

\* _detect_backend: the environment marker, else the socket scan, which
\* sets the marker when it finds the socket.
DetectBackend == IF env_marker \/ reach THEN backend ELSE None

\* _listen / _listen_udev without their forced apply.
DetectNoForced ==
    /\ pc = "detect"
    /\ LoopFree
    /\ IF DetectBackend = None
       THEN /\ pc' = "sleep"
            /\ sleep_left' = Ticks(RETRY_SLEEP_S * 1000)
            /\ UNCHANGED <<env_marker, ipc, using_udev, events>>
       ELSE /\ env_marker' = TRUE
            /\ ipc' = DetectBackend
            /\ using_udev' = (DetectBackend = "Niri" /\ HAS_PYUDEV)
            /\ pc' = IF DetectBackend = "Niri" /\ HAS_PYUDEV THEN "listen" ELSE "connect"
            /\ events' = 0
            /\ UNCHANGED sleep_left
    /\ fx' = IdleFx
    /\ UNCHANGED <<conn, liveOn, reach, lidReal, setup, debounce_handle, since_apply,
                   last_applied_profile, prev_applied_profile, lid_closed, runs,
                   timers, tasks, lid_calls, stream_ok, lid_monitor,
                   pending_ev, since_ev, burst_ran, budget>>
    /\ UNCHANGED pure

\* run(): one turn of the outer loop up to the forced apply of _listen /
\* _listen_udev, or to the retry sleep when no compositor is found.
Detect ==
    /\ pc = "detect"
    /\ LoopFree
    /\ IF DetectBackend = None
       THEN /\ pc' = "sleep"
            /\ sleep_left' = Ticks(RETRY_SLEEP_S * 1000)
            /\ UNCHANGED <<env_marker, ipc, using_udev, runs, events>>
       ELSE /\ env_marker' = TRUE
            /\ ipc' = DetectBackend
            /\ using_udev' = (DetectBackend = "Niri" /\ HAS_PYUDEV)
            /\ StartRun(TRUE, "live")
            /\ pc' = "forced"
            /\ events' = 0
            /\ UNCHANGED sleep_left
    /\ fx' = IdleFx
    /\ UNCHANGED <<conn, liveOn, reach, lidReal, setup, debounce_handle, since_apply,
                   last_applied_profile, prev_applied_profile, lid_closed,
                   timers, tasks, lid_calls, stream_ok, lid_monitor,
                   pending_ev, since_ev, burst_ran, budget>>
    /\ UNCHANGED pure

\* _listen: ipc.connect_event_socket() opens the event socket; a refused
\* connection ends the session in run()'s except branch.
Connect ==
    /\ pc = "connect"
    /\ LoopFree
    /\ IF reach
       THEN /\ pc' = "listen"
            /\ stream_ok' = TRUE
            /\ events' = 0
            /\ UNCHANGED <<sleep_left, timers, tasks>>
       ELSE /\ pc' = "sleep"
            /\ sleep_left' = Ticks(RETRY_SLEEP_S * 1000)
            /\ timers' = Ended(timers)
            /\ UNCHANGED <<stream_ok, events, tasks>>
    /\ fx' = IdleFx
    /\ UNCHANGED <<world, setup, fields, lid_calls, runs, lid_monitor,
                   pending_ev, since_ev, burst_ran, budget>>
    /\ UNCHANGED pure

\* _listen / _listen_udev: one hotplug event is taken from the stream (or
\* the udev queue) and _schedule_apply is called.
ConsumeEvent ==
    /\ pc = "listen"
    /\ LoopFree
    /\ events > 0
    /\ events' = events - 1
    /\ ScheduleApply("event")
    /\ pending_ev' = pending_ev + 1
    /\ since_ev' = 0
    /\ burst_ran' = (burst_ran /\ since_ev < ModeDebounce)
    /\ fx' = IdleFx
    /\ UNCHANGED <<world, setup, since_apply, last_applied_profile,
                   prev_applied_profile, using_udev, ipc, lid_closed,
                   pc, sleep_left, tasks, lid_calls, runs, stream_ok,
                   lid_monitor, budget>>
    /\ UNCHANGED pure

\* The event-stream read meets the closed socket. Hyprland's and Niri's
\* readline() return b"" and the generator ends, so _listen returns and
\* run() goes through finally straight to the next detection; Sway's
\* readexactly() raises, as does any read on a reset connection, and run()
\* sleeps in its except branch before finally.
StreamEnd ==
    /\ pc = "listen"
    /\ LoopFree
    /\ ~using_udev
    /\ ~stream_ok
    /\ events = 0
    /\ \E how \in IF backend = "Sway" THEN {"raise"} ELSE {"eof", "raise"} :
          IF how = "eof"
          THEN /\ pc' = "detect"
               /\ timers' = CancelPending(Ended(timers), debounce_handle)
               /\ debounce_handle' = 0
               /\ pending_ev' = 0
               /\ UNCHANGED sleep_left
          ELSE /\ pc' = "sleep"
               /\ sleep_left' = Ticks(RETRY_SLEEP_S * 1000)
               /\ timers' = Ended(timers)
               /\ UNCHANGED <<debounce_handle, pending_ev>>
    /\ since_ev' = ModeDebounce
    /\ burst_ran' = FALSE
    /\ fx' = IdleFx
    /\ UNCHANGED <<world, setup, since_apply, last_applied_profile,
                   prev_applied_profile, using_udev, ipc, lid_closed, tasks,
                   lid_calls, runs, events, stream_ok, lid_monitor, budget>>
    /\ UNCHANGED pure

\* run(): the retry sleep is over; finally cancels the held handle and the
\* loop turns.
SleepDone ==
    /\ pc = "sleep"
    /\ LoopFree
    /\ sleep_left = 0
    /\ FinallyCancel
    /\ pending_ev' = 0
    /\ since_ev' = ModeDebounce
    /\ burst_ran' = FALSE
    /\ pc' = "detect"
    /\ fx' = IdleFx
    /\ UNCHANGED <<world, setup, since_apply, last_applied_profile,
                   prev_applied_profile, using_udev, ipc, lid_closed,
                   sleep_left, tasks, lid_calls, runs, events, stream_ok,
                   lid_monitor, budget>>
    /\ UNCHANGED pure

\* A call_later entry is due: its lambda calls asyncio.ensure_future.
TimerFire ==
    /\ LoopFree
    /\ \E t \in timers :
          /\ t.left = 0
          /\ timers' = timers \ {t}
          /\ tasks' = Append(tasks, t.sess)
    /\ fx' = IdleFx
    /\ UNCHANGED <<world, setup, fields, pc, sleep_left, lid_calls, runs, events,
                   stream_ok, lid_monitor, pending_ev, since_ev, burst_ran, budget>>
    /\ UNCHANGED pure

\* The task made by ensure_future starts: _apply_best_profile(ipc) queries
\* the outputs.
TaskRun ==
    /\ LoopFree
    /\ tasks # <<>>
    /\ tasks' = Tail(tasks)
    /\ StartRun(FALSE, Head(tasks))
    /\ pending_ev' = 0
    /\ burst_ran' = (burst_ran \/ (0 < since_ev /\ since_ev < ModeDebounce))
    /\ fx' = IdleFx
    /\ UNCHANGED <<world, setup, fields, pc, sleep_left, timers, lid_calls, events,
                   stream_ok, lid_monitor, since_ev, budget>>
    /\ UNCHANGED pure

\* The callback the lid monitor handed to call_soon_threadsafe runs:
\* _schedule_apply(self._ipc).
LidCall ==
    /\ LoopFree
    /\ lid_calls > 0
    /\ lid_calls' = lid_calls - 1
    /\ ScheduleApply("lid")
    /\ fx' = IdleFx
    /\ UNCHANGED <<world, setup, since_apply, last_applied_profile,
                   prev_applied_profile, using_udev, ipc, lid_closed,
                   pc, sleep_left, tasks, runs, events, stream_ok,
                   lid_monitor, pending_ev, since_ev, burst_ran, budget>>
    /\ UNCHANGED pure

(***************************************************************************)
(* The backends' apply_profile, as the daemon calls it                     *)
(***************************************************************************)

\* One entry of a get_workspaces reply. Hyprland's "workspaces" reply names
\* the output of a workspace under "monitor"; the GET_WORKSPACES reply of
\* Sway (sway-ipc(7)) and the "Workspaces" reply of Niri name it under
\* "output". SwayIPC.get_workspaces returns the reply as it is.
Workspace(id, key, on) == [name |-> id, key |-> key, on |-> on]

WsKey(kind) == IF kind = "Hyprland" THEN "monitor" ELSE "output"

\* The "" of ws.get("monitor", "").
NoName == <<"", 0>>

\* ws.get("monitor", "")
WsMonitor(ws) == IF ws.key = "monitor" THEN ws.on ELSE NoName

\* enabled_names = {m.name for m in profile.monitors if m.enabled}
EnabledNames(monitors) ==
    {monitors[i].name : i \in {j \in 1..Len(monitors) : monitors[j].enabled}}

\* primary = next(m.name for m in profile.monitors if m.enabled)
Primary(monitors) ==
    monitors[Min({j \in 1..Len(monitors) : monitors[j].enabled})].name

\* The workspaces of the snapshot the loop sends a move command for, were
\* no command to fail: "ws_monitor and ws_monitor not in enabled_names".
Orphaned(monitors, ws_snapshot) ==
    {i \in 1..Len(ws_snapshot) :
        /\ WsMonitor(ws_snapshot[i]) # NoName
        /\ WsMonitor(ws_snapshot[i]) \notin EnabledNames(monitors)}

\* The loop leaving at the first command that fails.
AttemptedUntilFailure(orphans, fails) ==
    {i \in orphans : \A j \in orphans \cap fails : i <= j}

\* The commands sent when those of fails raise: the try/except is inside
\* the loop, so every orphaned workspace gets its command.
Attempted(orphans, fails) == orphans

\* _migrate_orphaned_workspaces(ipc, profile, ws_snapshot): the positions in
\* the snapshot of the workspaces a command was sent for, and the moves
\* that took place.
MigrateOrphanedWorkspaces(monitors, ws_snapshot, fails) ==
    IF EnabledNames(monitors) = {}
    THEN [attempted |-> {}, moved |-> {}]
    ELSE [attempted |-> Attempted(Orphaned(monitors, ws_snapshot), fails),
          moved |-> {[ws |-> ws_snapshot[i].name, to |-> Primary(monitors)] :
                        i \in Attempted(Orphaned(monitors, ws_snapshot), fails) \ fails}]

\* "if not isinstance(ipc, NiriIPC) and settings.get("migrate_workspaces", True)"
Migrates(kind, migrate_workspaces) == kind # "Niri" /\ migrate_workspaces

\* ipc.get_workspaces() of the daemon's backend: one workspace on each
\* plugged output that is on, named by the number of the output.
GetWorkspaces ==
    LET on == Ascending({o \in conn : liveOn[o]})
    IN  [i \in 1..Len(on) |-> Workspace(on[i], WsKey(ipc), OutName(on[i]))]

\* The daemon passes update_sddm, update_greetd and use_description (or, for
\* a synthesized layout, update_sddm and use_description). SwayIPC and
\* NiriIPC take all three; HyprlandIPC.apply_profile takes update_sddm only
\* and the call raises TypeError before its first line.
AcceptsOptions(kind) == kind \in {"Sway", "Niri"}

\* The backend sends a reload command after writing (Niri watches its
\* config file and is sent nothing).
SendsReload(kind) == kind \in {"Hyprland", "Sway"}

\* The rest of one run of _apply_best_profile after its output query: the
\* match, the skips, the clamshell and safety steps, the workspace snapshot,
\* apply_profile and the bookkeeping. die: the compositor goes away after
\* the workspace snapshot and before the reload command. bad: one of the
\* steps of apply_profile between the write of the primary config and the
\* reload (the write of the other compositors' configs, write_xsetup,
\* write_greetd_monitors) raises; nothing in apply_profile catches it, so
\* the run ends in the except branch of _apply_best_profile. The settings
\* file does not name migrate_workspaces, which is then on.
Effects(r, d, die, bad) ==
    LET applies == r.ok /\ d.kind \in {"profile", "undo", "emergency"}
        snap == applies /\ d.kind = "profile"
        snapped == snap /\ reach
        called == applies /\ (snap => snapped)
        wrote == called /\ AcceptsOptions(ipc)
        raised == wrote /\ bad
        up == reach /\ ~die
        reload == wrote /\ ~raised /\ SendsReload(ipc) /\ up
        done == wrote /\ ~raised /\ (SendsReload(ipc) => reload)
    IN  [kind |-> IF ~r.ok THEN "failed" ELSE d.kind,
         force |-> r.force,
         name |-> IF r.ok THEN d.name ELSE None,
         handed |-> IF called THEN d.layout ELSE <<>>,
         called |-> called, snap |-> snapped, wrote |-> wrote,
         reload |-> reload, done |-> done, raised |-> raised,
         ws |-> IF snapped THEN GetWorkspaces ELSE <<>>,
         moved |-> IF done /\ d.kind = "profile" /\ Migrates(ipc, TRUE)
                   THEN MigrateOrphanedWorkspaces(d.layout, GetWorkspaces, {}).moved
                   ELSE {},
         mons |-> r.mons,
         pre_last |-> last_applied_profile, pre_prev |-> prev_applied_profile,
         pre_since |-> since_apply, sess |-> r.sess,
         adopt |-> wrote /\ up /\ (raised => ~SendsReload(ipc))]

\* What the run that ends decides: nothing when its query failed.
Decided(r) ==
    IF r.ok
    THEN Decide(r.mons, r.force, ListAll(profile_dir), clamshell_mode,
                lid_closed, last_applied_profile, prev_applied_profile, since_apply)
    ELSE Decision("nomatch", None, <<>>)

\* The compositor can go away between the snapshot and the reload command.
CanDie(r, d) ==
    /\ reach /\ moves < MaxMoves /\ r.ok /\ backend = "Sway"
    /\ d.kind \in {"profile", "undo", "emergency"}

\* A step of apply_profile after the primary write can fail: pkexec denied
\* or missing, the other compositor's config directory not writable.
CanFail(r, d) ==
    /\ moves < MaxMoves /\ r.ok /\ AcceptsOptions(ipc)
    /\ d.kind \in {"profile", "undo", "emergency"}
    /\ (d.kind = "profile" => reach)

\* The bookkeeping done as soon as apply_profile is called.
RecordedOnCall(e) == e.called

\* The run reaches the bookkeeping after apply_profile: the call returned
\* without raising.
Recorded(e) == e.done

Finish(r, d, e, die) ==
    /\ fx' = [k \in DOMAIN IdleFx |-> e[k]]
    /\ since_apply' = IF Recorded(e) THEN 0 ELSE since_apply
    /\ last_applied_profile' =
          IF Recorded(e) /\ d.kind = "profile" THEN d.name ELSE last_applied_profile
    /\ prev_applied_profile' =
          IF Recorded(e) /\ d.kind = "profile"
          THEN last_applied_profile ELSE prev_applied_profile
    /\ liveOn' = IF e.adopt THEN Adopt(d.layout) ELSE liveOn
    /\ reach' = (reach /\ ~die)
    /\ stream_ok' = (stream_ok /\ ~die)
    /\ moves' = IF die \/ e.raised THEN moves + 1 ELSE moves
    /\ pc' = IF r.force
             THEN IF using_udev THEN "listen" ELSE "connect"
             ELSE pc

EndRunWith(r, d) ==
    \E how \in {"ok"} \cup (IF CanDie(r, d) THEN {"die"} ELSE {})
                      \cup (IF CanFail(r, d) THEN {"bad"} ELSE {}) :
        Finish(r, d, Effects(r, d, how = "die", how = "bad"), how = "die")

EndRun ==
    /\ runs # <<>>
    /\ EndRunWith(Head(runs), Decided(Head(runs)))
    /\ runs' = Tail(runs)
    /\ UNCHANGED <<conn, lidReal, env_marker, setup, debounce_handle, using_udev,
                   ipc, lid_closed, sleep_left, timers, tasks, lid_calls, events,
                   lid_monitor, pending_ev, since_ev, burst_ran>>
    /\ UNCHANGED pure

(***************************************************************************)
(* Time                                                                    *)
(***************************************************************************)

\* Something on the loop is ready to run now.
LoopReady ==
    \/ runs # <<>>
    \/ tasks # <<>>
    \/ lid_calls > 0
    \/ \E t \in timers : t.left = 0
    \/ pc \in {"detect", "forced", "connect"}
    \/ pc = "sleep" /\ sleep_left = 0
    \/ pc = "listen" /\ events > 0
    \/ pc = "listen" /\ ~using_udev /\ ~stream_ok
    \/ lid_monitor = "starting"

\* The largest threshold the code can still compare the time since the
\* last apply with: the loop window once two profiles have been applied
\* (before that _prev_applied_profile is None and equals no match), and
\* the settle time of the Niri mode in use.
Watched ==
    Max({0}
        \cup (IF prev_applied_profile # None THEN {Ticks(LOOP_WINDOW_S * 1000)} ELSE {})
        \cup (IF backend = "Niri" /\ HAS_PYUDEV
              THEN {Ticks(UDEV_SETTLE_S * 1000)} ELSE {})
        \cup (IF backend = "Niri" /\ ~HAS_PYUDEV
              THEN {Ticks((NIRI_SETTLE_BASE + NIRI_SETTLE_S_DEFAULT) * 1000)}
              ELSE {}))

\* One second passes while the loop waits. The time since the last apply stops
\* counting once it is past every threshold it can be compared with.
Tick ==
    /\ ~LoopReady
    /\ since_apply' = IF since_apply < Watched THEN since_apply + 1 ELSE since_apply
    /\ timers' = {[t EXCEPT !.left = t.left - 1] : t \in timers}
    /\ sleep_left' = IF sleep_left > 0 THEN sleep_left - 1 ELSE 0
    /\ since_ev' = IF since_ev < ModeDebounce THEN since_ev + 1 ELSE since_ev
    /\ burst_ran' = (burst_ran /\ since_ev + 1 < ModeDebounce)
    /\ fx' = IdleFx
    /\ UNCHANGED <<world, setup, debounce_handle, last_applied_profile,
                   prev_applied_profile, using_udev, ipc, lid_closed,
                   pc, tasks, lid_calls, runs, events, stream_ok,
                   lid_monitor, pending_ev, budget>>
    /\ UNCHANGED pure

(***************************************************************************)
(* The machine's moves                                                     *)
(***************************************************************************)

\* The machine moves while the loop waits or while a run does its I/O; the
\* loop's other steps take no time.
Elapses == ~LoopReady \/ runs # <<>>

\* The stream of this session delivers hotplug events: the udev monitor
\* once its reader is added, else the connected event socket.
Delivers ==
    IF using_udev /\ InSession THEN TRUE ELSE pc = "listen" /\ stream_ok

\* An external output is plugged in or pulled out (the built-in panel, when
\* the machine has one, stays).
Hotplug ==
    /\ Elapses
    /\ moves < MaxMoves
    /\ moves' = moves + 1
    /\ \E o \in Outs \ {1} :
          /\ conn' = IF o \in conn THEN conn \ {o} ELSE conn \cup {o}
          /\ liveOn' = [liveOn EXCEPT ![o] = TRUE]
    /\ IF Delivers
       THEN events < MaxEvents /\ events' = events + 1
       ELSE UNCHANGED events
    /\ fx' = IdleFx
    /\ UNCHANGED <<reach, lidReal, env_marker, setup, fields, pc, sleep_left, timers,
                   tasks, lid_calls, runs, stream_ok, lid_monitor, pending_ev, since_ev, burst_ran>>
    /\ UNCHANGED pure

\* Niri reports output churn that no plug caused (its own rearrangement,
\* DRM events of a config reload).
Churn ==
    /\ Elapses
    /\ backend = "Niri"
    /\ Delivers
    /\ moves < MaxMoves
    /\ moves' = moves + 1
    /\ events < MaxEvents
    /\ events' = events + 1
    /\ fx' = IdleFx
    /\ UNCHANGED <<world, setup, fields, pc, sleep_left, timers, tasks, lid_calls,
                   runs, stream_ok, lid_monitor, pending_ev, since_ev, burst_ran>>
    /\ UNCHANGED pure

\* The compositor exits: its sockets close.
CompDown ==
    /\ Elapses
    /\ reach
    /\ moves < MaxMoves
    /\ moves' = moves + 1
    /\ reach' = FALSE
    /\ stream_ok' = FALSE
    /\ fx' = IdleFx
    /\ UNCHANGED <<conn, liveOn, lidReal, env_marker, setup, fields, pc, sleep_left,
                   timers, tasks, lid_calls, runs, events, lid_monitor, pending_ev, since_ev, burst_ran>>
    /\ UNCHANGED pure

\* The compositor starts.
CompUp ==
    /\ Elapses
    /\ ~reach
    /\ reach' = TRUE
    /\ fx' = IdleFx
    /\ UNCHANGED <<conn, liveOn, lidReal, env_marker, setup, fields, loop,
                   lid_monitor, pending_ev, since_ev, burst_ran, budget>>
    /\ UNCHANGED pure

\* daemon.py, _start_lid_monitor._run on the lid-monitor thread: the
\* initial LidIsClosed is stored in self._lid_closed.
LidInit ==
    /\ lid_monitor = "starting"
    /\ lid_monitor' = "running"
    /\ lid_closed' = IF lidReal THEN "True" ELSE "False"
    /\ fx' = IdleFx
    /\ UNCHANGED <<world, setup, debounce_handle, since_apply, last_applied_profile,
                   prev_applied_profile, using_udev, ipc, loop, pending_ev, since_ev, burst_ran, budget>>
    /\ UNCHANGED pure

\* The lid moves. With the monitor running, _on_signal (on the lid-monitor
\* thread) stores the new state and, when self._ipc is set, hands
\* _schedule_apply to the loop.
LidToggle ==
    /\ Elapses
    /\ moves < MaxMoves
    /\ moves' = moves + 1
    /\ lidReal' = ~lidReal
    /\ IF lid_monitor = "running"
       THEN /\ lid_closed' = IF lidReal' THEN "True" ELSE "False"
            /\ lid_calls' = IF ipc # None THEN lid_calls + 1 ELSE lid_calls
       ELSE UNCHANGED <<lid_closed, lid_calls>>
    /\ fx' = IdleFx
    /\ UNCHANGED <<conn, liveOn, reach, env_marker, setup, debounce_handle,
                   since_apply, last_applied_profile, prev_applied_profile,
                   using_udev, ipc, pc, sleep_left, timers, tasks, runs, events,
                   stream_ok, lid_monitor, pending_ev, since_ev, burst_ran>>
    /\ UNCHANGED pure

Next ==
    \/ Detect
    \/ Connect
    \/ ConsumeEvent
    \/ StreamEnd
    \/ SleepDone
    \/ TimerFire
    \/ TaskRun
    \/ LidCall
    \/ EndRun
    \/ Tick
    \/ Hotplug
    \/ Churn
    \/ CompDown
    \/ CompUp
    \/ LidInit
    \/ LidToggle

Spec == Init /\ [][Next]_vars

\* The event loop runs what is ready (a step of run()/_listen(), a due
\* timer, a task, a callback) and time passes while it waits.
LoopStep ==
    \/ Detect \/ Connect \/ ConsumeEvent \/ StreamEnd \/ SleepDone
    \/ TimerFire \/ TaskRun \/ LidCall \/ Tick

\* A docked laptop with its lid open and the compositor running.
DockedInit ==
    /\ Init
    /\ conn = {1, 2}
    /\ \A o \in Outs : liveOn[o]
    /\ reach
    /\ ~lidReal
    /\ ~clamshell_mode
    /\ profile_dir = 1

\* The loop keeps running its steps, the lid-monitor thread gets to its
\* first query, and a run that has started ends (its socket calls return or
\* raise).
FairSpec ==
    /\ DockedInit /\ [][Next]_vars
    /\ WF_vars(LoopStep) /\ WF_vars(LidInit) /\ []<>(runs = <<>>)

\* A docked laptop with clamshell mode on and the compositor running; the
\* lid is open or closed.
ClamshellInit ==
    /\ Init
    /\ conn = {1, 2}
    /\ \A o \in Outs : liveOn[o]
    /\ reach
    /\ clamshell_mode
    /\ profile_dir = 1

\* The same scheduling as FairSpec, from ClamshellInit.
ClamshellSpec ==
    /\ ClamshellInit /\ [][Next]_vars
    /\ WF_vars(LoopStep) /\ WF_vars(LidInit) /\ []<>(runs = <<>>)

(***************************************************************************)
(* One call of apply_clamshell or of find_best_match on arguments drawn    *)
(* from a bounded set; the daemon stands still.                            *)
(***************************************************************************)

\* The stored profiles of one call are at most this many.
MaxProfiles == 2

\* The connectors of the arguments: eDP-1, lvds-1, DP-1 and HDMI-A-1, with
\* the descriptions "A", "D", "B" and "C".
ArgName(k) ==
    CASE k = 1 -> <<"eDP", 1>>
      [] k = 2 -> <<"lvds", 1>>
      [] k = 3 -> <<"DP", 1>>
      [] OTHER -> <<"HDMI", 1>>

ArgDesc(k) ==
    CASE k = 1 -> Desc("A", 0, 0)
      [] k = 2 -> Desc("D", 0, 0)
      [] k = 3 -> Desc("B", 0, 0)
      [] OTHER -> Desc("C", 0, 0)

\* One output of an argument: disabled ("off"), enabled ("on"), or enabled
\* at another position ("moved").
ArgMonitor(k, st) ==
    MonitorConfig(ArgName(k), ArgDesc(k), st # "off", IF st = "moved" THEN 1 ELSE 0)

ArgSlots(c) == Ascending({k \in DOMAIN c : c[k] # "absent"})

\* The list of outputs a choice per connector stands for.
ArgList(c) == [i \in 1..Len(ArgSlots(c)) |-> ArgMonitor(ArgSlots(c)[i], c[ArgSlots(c)[i]])]

ClamshellLists == {ArgList(c) : c \in [{1, 2, 3, 4} -> {"absent", "off", "on"}]}

LiveLists == {ArgList(c) : c \in [{1, 3, 4} -> {"absent", "off", "on"}]}

StoredLayouts ==
    {ArgList(c) : c \in {d \in [{1, 3, 4} -> {"absent", "off", "on", "moved"}] :
                            d[1] # "moved" /\ d[4] # "moved"}}

StoredName(i) == IF i = 1 THEN "p1" ELSE IF i = 2 THEN "p2" ELSE "p3"

\* What list_all can return: up to MaxProfiles profiles, in file order.
StoredLists ==
    UNION {{[i \in 1..n |-> Profile(StoredName(i), f[i])] : f \in [1..n -> StoredLayouts]} :
              n \in 0..MaxProfiles}

\* The arguments of one call. monitors are the live outputs, from which the
\* caller derives the fingerprint; with_monitors tells whether the caller
\* also passes them as current_monitors (the parameter defaults to None).
FnInputs ==
    {[monitors |-> m, profiles |-> <<>>, exact_config |-> FALSE, with_monitors |-> TRUE] :
        m \in ClamshellLists}
    \cup [monitors : LiveLists, profiles : StoredLists, exact_config : BOOLEAN,
          with_monitors : BOOLEAN]

FnInit ==
    /\ DaemonInit
    /\ conn = Outs
    /\ \A o \in Outs : liveOn[o]
    /\ reach
    /\ ~lidReal
    /\ backend = "Sway"
    /\ profile_dir = 1
    /\ fn = "none"
    /\ fn_in \in FnInputs
    /\ fn_out = NoOutput

\* apply_clamshell(monitors): the list as the call leaves it and the value
\* returned.
CallApplyClamshell ==
    /\ fn = "none"
    /\ fn' = "apply_clamshell"
    /\ fn_out' = [monitors |-> ApplyClamshell(fn_in.monitors),
                  ret |-> ClamshellApplies(fn_in.monitors)]
    /\ UNCHANGED <<daemon, fn_in>>

\* The current_monitors argument of the call: the live outputs, or None.
CallMonitors == IF fn_in.with_monitors THEN fn_in.monitors ELSE <<>>

\* find_best_match(fingerprint, monitors, exact_config=...) over the stored
\* profiles: the index of the profile returned, 0 for None.
CallFindBestMatch ==
    /\ fn = "none"
    /\ fn' = "find_best_match"
    /\ fn_out' = [monitors |-> fn_in.monitors,
                  ret |-> FindBestMatch(Fingerprint(fn_in.monitors), fn_in.profiles,
                                        CallMonitors, fn_in.exact_config)]
    /\ UNCHANGED <<daemon, fn_in>>

FnNext ==
    \/ CallApplyClamshell
    \/ CallFindBestMatch

FnSpec == FnInit /\ [][FnNext]_vars

(***************************************************************************)
(* Properties                                                              *)
(***************************************************************************)

\* The run that has just ended matched a stored profile.
Matched == fx.kind \in {"same", "loop", "unsafe", "profile"}

\* That profile, as list_all loaded it.
MatchedProfile ==
    ListAll(profile_dir)[CHOOSE i \in 1..Len(ListAll(profile_dir)) :
                            ListAll(profile_dir)[i].name = fx.name]

\* Its layout after the clamshell step, as the safety step meets it.
BeforeSafety == Processed(MatchedProfile, Fingerprint(fx.mons), clamshell_mode, lid_closed)

\* The run left _last_applied_profile, _prev_applied_profile and
\* _last_apply_time as it found them.
Untouched ==
    /\ last_applied_profile = fx.pre_last
    /\ prev_applied_profile = fx.pre_prev
    /\ since_apply = fx.pre_since

\* The run gave the backend nothing to do.
NothingDone == ~fx.called /\ ~fx.snap /\ ~fx.wrote /\ ~fx.reload

\* C1: every layout handed to apply_profile (a matched profile after the
\* clamshell and safety steps, the clamshell-undo layout, the
\* emergency-recovery layout) has an enabled output that the query at the
\* start of the run reported as connected.
C1_HandedLayoutHasLiveOutput ==
    fx.called =>
        \E i \in 1..Len(fx.handed) :
            /\ fx.handed[i].enabled
            /\ fx.handed[i].description \in Fingerprint(fx.mons)

C1_Witness == fx.called /\ fx.kind = "emergency"

\* C2: when the matched profile, after the clamshell step, has no enabled
\* connected output but has a connected one, it is applied; with a connected
\* internal output the layout enables every connected internal output and
\* changes no other enabled flag, otherwise it enables the first connected
\* output in profile order and changes no other enabled flag.
C2_SafetyFallback ==
    (/\ fx.kind \in {"unsafe", "profile"}
     /\ EnabledConnected(BeforeSafety, Fingerprint(fx.mons)) = {}
     /\ ConnectedAny(BeforeSafety, Fingerprint(fx.mons)) # {})
    => /\ fx.kind = "profile"
       /\ fx.called =>
            LET before == BeforeSafety
                internals == ConnectedInternals(before, Fingerprint(fx.mons))
                first == Min(ConnectedAny(before, Fingerprint(fx.mons)))
                changed == {i \in 1..Len(before) :
                               fx.handed[i].enabled # before[i].enabled}
            IN  /\ Len(fx.handed) = Len(before)
                /\ \A i \in changed : fx.handed[i].enabled
                /\ changed = IF internals # {} THEN internals ELSE {first}

C2_Witness ==
    /\ fx.kind = "profile"
    /\ fx.called
    /\ EnabledConnected(BeforeSafety, Fingerprint(fx.mons)) = {}
    /\ ConnectedInternals(BeforeSafety, Fingerprint(fx.mons)) = {}

\* C3: when no output of the matched profile (after the clamshell step) is
\* connected, the apply is skipped: no workspace snapshot, no write, no
\* reload, and the last-applied name, the previous-applied name and the
\* last-apply time stay as they were.
C3_UnsafeApplySkipped ==
    (/\ fx.kind \in {"unsafe", "profile"}
     /\ ConnectedAny(BeforeSafety, Fingerprint(fx.mons)) = {})
    => NothingDone /\ Untouched

C3_Witness == fx.kind = "unsafe" /\ fx.mons # <<>>

\* C4: hotplug events that follow each other by less than the debounce
\* delay of the mode give one run, which queries after the last of them (no
\* timer-started run has queried between two such events), and at most one
\* debounce timer is pending at any moment.
C4_DebounceCoalesces ==
    [][/\ Cardinality(timers') <= 1
       /\ (pending_ev' = pending_ev + 1) => ~(burst_ran /\ since_ev < ModeDebounce)]_vars

\* C5: between the query of one run of _apply_best_profile and its end no
\* other run starts, whatever started them.
C5_OneApplyAtATime == Len(runs) <= 1

C5_Witness == runs # <<>> /\ tasks # <<>>

\* C6: a non-forced run whose match is the profile applied before the last
\* one, less than 30 seconds after the last apply, is skipped: nothing is
\* handed to the backend and the three bookkeeping fields are unchanged.
C6_LoopSuppressed ==
    (/\ Matched
     /\ ~fx.force
     /\ fx.name = fx.pre_prev
     /\ fx.pre_since < Ticks(LOOP_WINDOW_S * 1000))
    => NothingDone /\ Untouched

C6_Witness == fx.kind = "loop" /\ fx.pre_last # fx.name

\* C7: a non-forced run whose match is the last applied profile hands the
\* backend nothing and leaves the bookkeeping fields unchanged; a forced run
\* is skipped neither by this rule nor by the loop detection.
C7_SameProfileSkipped ==
    /\ (Matched /\ ~fx.force /\ fx.name = fx.pre_last) => NothingDone /\ Untouched
    /\ fx.force => fx.kind \notin {"same", "loop"}

C7_Witness == fx.force /\ fx.kind = "profile" /\ fx.name = fx.pre_last /\ fx.done

\* C8: a listening session starts with one forced run, in the socket mode
\* and in the udev mode; the session connects or listens only once that run
\* has ended, no other forced run starts in the session, and events are
\* consumed only while listening.
C8_ForcedApplyFirst ==
    [][/\ (pc' = "forced")
            <=> (Cardinality({i \in 1..Len(runs') : runs'[i].force}) = 1)
       /\ (pc' # "forced") => \A i \in 1..Len(runs') : ~runs'[i].force
       /\ (pc # "forced" /\ pc' = "forced") => pc = "detect"
       /\ (pc \notin {"connect", "listen"} /\ pc' \in {"connect", "listen"})
            => (pc = "forced" /\ fx'.force /\ fx'.kind # "idle")
       /\ (pending_ev' = pending_ev + 1) => pc = "listen"]_vars

C8_Witness == using_udev /\ pc = "forced" /\ events > 0

\* C9: no run of _apply_best_profile is started by a timer that a listening
\* session armed and that fires after the session has ended with an error.
C9_NoRunFromEndedSession == \A i \in 1..Len(runs) : runs[i].sess # "ended"

\* C10: whenever the compositor is unreachable the daemon eventually is back
\* at backend detection, unless the compositor has come back before.
C10_ReturnsToDetecting == (~reach) ~> (pc = "detect" \/ reach)

\* C11: the lid timer and the hotplug debounce timer never cancel each
\* other: the callback of a lid notification leaves every pending timer
\* that a hotplug event armed in the schedule, and the handling of a hotplug
\* event leaves every pending timer that a lid notification armed.
C11_SeparateTimerSlots ==
    [][/\ (lid_calls' = lid_calls - 1) =>
            \A t \in timers : t.by = "event" => \E u \in timers' : u.id = t.id
       /\ (pending_ev' = pending_ev + 1) =>
            \A t \in timers : t.by = "lid" => \E u \in timers' : u.id = t.id]_vars

\* C12: the lid-monitor thread changes no field of the daemon directly, so
\* the lid state the daemon holds does not change between the output query
\* of a run of _apply_best_profile and the end of that run.
C12_LidStateStableDuringRun ==
    [][runs # <<>> => lid_closed' = lid_closed]_vars

\* The docked laptop is as it was when the lid notification came: both
\* outputs plugged, the compositor up, "docked" the last applied profile.
StillDocked == conn = {1, 2} /\ reach /\ clamshell_mode

\* Some internal output of the layout is disabled.
InternalOff(layout) ==
    \E i \in 1..Len(layout) : IsInternal(layout[i]) /\ ~layout[i].enabled

\* C13: with clamshell mode on, the matching profile "docked" last applied,
\* the panel and the external output enabled, a lid-closed notification
\* received while listening is eventually followed by a completed apply
\* whose layout has the panel disabled (unless the lid reopens, the
\* compositor goes away or an output is plugged or pulled first).
C13_LidCloseDisablesInternal ==
    (/\ pc = "listen" /\ lid_calls > 0 /\ lid_closed = "True"
     /\ StillDocked /\ liveOn[1] /\ liveOn[2]
     /\ last_applied_profile = "docked")
    ~> (\/ fx.done /\ InternalOff(fx.handed)
        \/ ~lidReal \/ ~StillDocked)

\* C14: with clamshell mode on, the matching profile "docked" last applied
\* and the panel disabled by clamshell, a lid-open notification received
\* while listening is eventually followed by a completed apply whose layout
\* has the panel enabled (unless the lid closes again, the compositor goes
\* away or an output is plugged or pulled first).
C14_LidOpenEnablesInternal ==
    (/\ pc = "listen" /\ lid_calls > 0 /\ lid_closed = "False"
     /\ StillDocked /\ ~liveOn[1] /\ liveOn[2]
     /\ last_applied_profile = "docked")
    ~> (\/ fx.done /\ ~InternalOff(fx.handed)
        \/ lidReal \/ ~StillDocked)

\* The connected external outputs the matched profile enables, as list_all
\* loaded it.
ProfileExternals ==
    {i \in 1..Len(MatchedProfile.monitors) :
        /\ ~IsInternal(MatchedProfile.monitors[i])
        /\ MatchedProfile.monitors[i].enabled
        /\ MatchedProfile.monitors[i].description \in Fingerprint(fx.mons)}

\* C15: with clamshell mode on, the layout handed over for a matched profile
\* has a disabled internal output only if the lid is not known to be open
\* and an external output enabled in the profile is connected; otherwise
\* every internal output of the layout is enabled.
C15_ClamshellOnlyWithExternal ==
    (fx.kind = "profile" /\ fx.called /\ clamshell_mode)
    => (InternalOff(fx.handed) => (lid_closed # "False" /\ ProfileExternals # {}))

C15_Witness ==
    /\ fx.kind = "profile" /\ fx.called /\ clamshell_mode
    /\ lid_closed = "True"
    /\ ProfileExternals = {}
    /\ \E i \in 1..Len(fx.handed) : IsInternal(fx.handed[i])
    /\ \E i \in 1..Len(fx.handed) : ~IsInternal(fx.handed[i]) /\ fx.handed[i].enabled

\* C16: with clamshell mode on, a layout handed over for a matched profile
\* while the lid is open has every internal output enabled, the forced apply
\* made before the lid monitor has reported the lid state included.
C16_InternalKeptWhileLidOpen ==
    (fx.kind = "profile" /\ fx.called /\ clamshell_mode /\ ~lidReal)
    => ~InternalOff(fx.handed)

\* C17: apply_clamshell changes nothing and returns false when the list has
\* no enabled external output or no enabled internal output; otherwise it
\* disables exactly the enabled internal outputs, leaves the rest as it was
\* and returns true. A list with an enabled output keeps an enabled output.
C17_ApplyClamshell ==
    fn = "apply_clamshell" =>
        LET before == fn_in.monitors
            after == fn_out.monitors
            internals == {i \in 1..Len(before) : IsInternal(before[i]) /\ before[i].enabled}
            externals == {i \in 1..Len(before) : ~IsInternal(before[i]) /\ before[i].enabled}
        IN  /\ Len(after) = Len(before)
            /\ IF internals = {} \/ externals = {}
               THEN after = before /\ fn_out.ret = FALSE
               ELSE /\ fn_out.ret = TRUE
                    /\ \A i \in 1..Len(before) :
                          after[i] = IF i \in internals
                                     THEN [before[i] EXCEPT !.enabled = FALSE]
                                     ELSE before[i]
            /\ (\E i \in 1..Len(before) : before[i].enabled)
                  => \E i \in 1..Len(after) : after[i].enabled

C17_Witness ==
    /\ fn = "apply_clamshell"
    /\ fn_out.ret = TRUE
    /\ Cardinality({i \in 1..Len(fn_in.monitors) :
                      IsInternal(fn_in.monitors[i]) /\ fn_in.monitors[i].enabled}) = 2
    /\ \E i \in 1..Len(fn_in.monitors) : ~fn_in.monitors[i].enabled

\* The run that has just ended queried the outputs and matched no profile.
Unmatched == fx.kind \in {"undo", "emergency", "nomatch"}

\* The layout is the queried outputs with every internal output enabled.
InternalsEnabled(layout, monitors) ==
    /\ Len(layout) = Len(monitors)
    /\ \A i \in 1..Len(monitors) :
          layout[i] = IF IsInternal(monitors[i])
                      THEN [monitors[i] EXCEPT !.enabled = TRUE]
                      ELSE monitors[i]

\* C18 as stated: without a match, clamshell mode on and the lid known open
\* the queried outputs are handed over with the internal ones enabled; else,
\* with every output disabled and an internal one among them, the same
\* layout is handed over; else nothing is done and no field changes.
C18_NoMatchAsStated ==
    Unmatched =>
        IF clamshell_mode /\ lid_closed = "False"
        THEN fx.called /\ InternalsEnabled(fx.handed, fx.mons)
        ELSE IF AllDisabled(fx.mons) /\ \E i \in 1..Len(fx.mons) : IsInternal(fx.mons[i])
        THEN fx.called /\ InternalsEnabled(fx.handed, fx.mons)
        ELSE NothingDone /\ Untouched

\* C18: without a match, when clamshell mode is on, the lid is known open
\* and an internal output is disabled, the queried outputs are handed over
\* with the internal ones enabled; else, with every output disabled and an
\* internal one among them, the same layout is handed over; in every other
\* case nothing is done and no field changes.
C18_NoMatch ==
    Unmatched =>
        IF clamshell_mode /\ lid_closed = "False" /\ InternalOff(fx.mons)
        THEN fx.called /\ InternalsEnabled(fx.handed, fx.mons)
        ELSE IF AllDisabled(fx.mons) /\ \E i \in 1..Len(fx.mons) : IsInternal(fx.mons[i])
        THEN fx.called /\ InternalsEnabled(fx.handed, fx.mons)
        ELSE NothingDone /\ Untouched

C18_Witness ==
    /\ fx.kind = "undo"
    /\ fx.called
    /\ \E i \in 1..Len(fx.mons) : ~IsInternal(fx.mons[i]) /\ fx.mons[i].enabled

\* The arguments and the result of the call of find_best_match.
CallCurrent == Fingerprint(fn_in.monitors)

CallStored(i) == Fingerprint(fn_in.profiles[i].monitors)

\* |F \cap C| / |F \cup C| >= 0.5 for stored profile i.
ClearsFloor(i) ==
    2 * Cardinality(CallStored(i) \cap CallCurrent)
        >= Cardinality(CallStored(i) \cup CallCurrent)

\* C19: find_best_match returns a profile only if its fingerprint and the
\* current one have a Jaccard similarity of at least 0.5; it returns none
\* when the current fingerprint is empty, when no stored profile has a
\* non-empty fingerprint, and when every stored profile scores below 0.5.
C19_SimilarityFloor ==
    fn = "find_best_match" =>
        /\ fn_out.ret # 0 =>
              /\ fn_out.ret \in 1..Len(fn_in.profiles)
              /\ CallStored(fn_out.ret) # {}
              /\ ClearsFloor(fn_out.ret)
        /\ (\/ CallCurrent = {}
            \/ \A i \in 1..Len(fn_in.profiles) : CallStored(i) = {}
            \/ \A i \in 1..Len(fn_in.profiles) : ~ClearsFloor(i))
              => fn_out.ret = 0

\* Current fingerprint {A}, a stored fingerprint {B}: no match.
C19_Witness ==
    /\ fn = "find_best_match"
    /\ fn_out.ret = 0
    /\ CallCurrent = {Desc("A", 0, 0)}
    /\ Len(fn_in.profiles) = 1
    /\ CallStored(1) = {Desc("B", 0, 0)}

\* The rank of stored profile i: the similarity in sixtieths (the union has
\* at most six members), then the negated count of enabled outputs that are
\* not connected, the enabled external outputs, the enabled-state matches
\* and the full-geometry matches.
CallRank(i) ==
    <<(60 * Cardinality(CallStored(i) \cap CallCurrent))
          \div Cardinality(CallStored(i) \cup CallCurrent),
      0 - MatchStats(fn_in.profiles[i].monitors, CallMonitors).missing_enabled,
      MatchStats(fn_in.profiles[i].monitors, CallMonitors).ext_enabled,
      MatchStats(fn_in.profiles[i].monitors, CallMonitors).enabled_matches,
      MatchStats(fn_in.profiles[i].monitors, CallMonitors).config_matches>>

\* Lexicographic order on ranks.
RankAbove(a, b) ==
    \E k \in 1..5 : a[k] > b[k] /\ \A m \in 1..(k - 1) : a[m] = b[m]

\* The profiles find_best_match puts in its candidates list.
CallCandidates ==
    Kept(Candidates(fn_in.profiles, CallCurrent, CallMonitors), CallMonitors,
         fn_in.exact_config)

\* C20: the profile find_best_match returns is one of its candidates and no
\* candidate ranks above it in the lexicographic order of similarity, fewest
\* enabled outputs not connected, most enabled external outputs, most
\* enabled-state matches, most full-geometry matches. Outside exact mode the
\* candidates are the stored profiles with a non-empty fingerprint that
\* clear the similarity floor.
C20_RankingOrder ==
    fn = "find_best_match" =>
        /\ ~fn_in.exact_config =>
              CallCandidates = {j \in 1..Len(fn_in.profiles) :
                                   CallStored(j) # {} /\ ClearsFloor(j)}
        /\ fn_out.ret # 0 =>
              /\ fn_out.ret \in CallCandidates
              /\ \A j \in CallCandidates :
                    ~RankAbove(CallRank(j), CallRank(fn_out.ret))

\* Stored fingerprints {A,B} and {A,C}, current {A,B}: the first is returned.
C20_Witness ==
    /\ fn = "find_best_match"
    /\ Len(fn_in.profiles) = 2
    /\ CallStored(1) = {Desc("A", 0, 0), Desc("B", 0, 0)}
    /\ CallStored(2) = {Desc("A", 0, 0), Desc("C", 0, 0)}
    /\ CallCurrent = {Desc("A", 0, 0), Desc("B", 0, 0)}
    /\ fn_out.ret = 1

\* The stored profile find_best_match returned.
CallReturned == fn_in.profiles[fn_out.ret].monitors

\* The position in the current_monitors argument of the live counterpart of
\* output i of the returned profile (same normalized description), 0 when
\* it has none.
CallCounterpart(i) ==
    LET I == {k \in 1..Len(CallMonitors) :
                 CallMonitors[k].description = CallReturned[i].description}
    IN  IF I = {} THEN 0 ELSE Max(I)

\* Output i of the returned profile is enabled and its live counterpart is
\* a disabled internal output.
CallInternalOff(i) ==
    /\ CallCounterpart(i) # 0
    /\ CallReturned[i].enabled
    /\ ~CallMonitors[CallCounterpart(i)].enabled
    /\ IsInternal(CallMonitors[CallCounterpart(i)])

\* C21: in exact mode find_best_match returns a profile only if every
\* output of the profile that has a live counterpart agrees with it in
\* enabled state and, when enabled, in geometry (an enabled output whose
\* counterpart is a disabled internal output is let through, as the matcher's
\* special case), and every enabled output of the profile has a live
\* counterpart; for every call, the ones without a list of live outputs
\* included.
C21_ExactModeRejects ==
    (fn = "find_best_match" /\ fn_in.exact_config /\ fn_out.ret # 0) =>
        \A i \in 1..Len(CallReturned) :
            IF CallCounterpart(i) = 0
            THEN ~CallReturned[i].enabled
            ELSE \/ CallInternalOff(i)
                 \/ /\ CallReturned[i].enabled = CallMonitors[CallCounterpart(i)].enabled
                    /\ CallReturned[i].enabled =>
                          CallReturned[i].geom = CallMonitors[CallCounterpart(i)].geom

\* C22: with clamshell mode off, an enabled profile output whose live
\* counterpart is a disabled internal output is a mismatch, so that in exact
\* mode a profile with such an output is not returned.
C22_SpecialCaseOnlyForClamshell ==
    (/\ fn = "find_best_match"
     /\ fn_in.exact_config
     /\ fn_in.with_monitors
     /\ ~clamshell_mode
     /\ fn_out.ret # 0) =>
        \A i \in 1..Len(CallReturned) : ~CallInternalOff(i)

(***************************************************************************)
(* Output construction and the dict round trip: models.py                  *)
(* One output is constructed from a description drawn from a bounded set   *)
(* of strings, put into a profile, and the profile is taken through        *)
(* to_dict and from_dict; the daemon stands still.                         *)
(***************************************************************************)

\* A description has at most this many pieces.
MaxPieces == 5

Pieces == {"PNP(", ")", " ", "Unknown", "A"}

DescStrings == UNION {[1..n -> Pieces] : n \in 0..MaxPieces}

\* The keyword arguments of the constructor call.
DescInputs == [description : DescStrings, vrr : VRRMembers]

\* The daemon before its first step, in one fixed environment.
AtRest ==
    /\ DaemonInit
    /\ conn = Outs
    /\ \A o \in Outs : liveOn[o]
    /\ reach
    /\ ~lidReal
    /\ backend = "Sway"
    /\ ~clamshell_mode
    /\ profile_dir = 1

DescInit ==
    /\ AtRest
    /\ fn = "none"
    /\ fn_in \in DescInputs
    /\ fn_out = NoOutput

\* MonitorConfig(name="DP-1", description=..., vrr=...): the profile that now
\* holds the output.
CallMonitorConfig ==
    /\ fn = "none"
    /\ fn' = "MonitorConfig"
    /\ fn_out' = [monitors |-> <<[MonitorConfig(<<"DP", 1>>, fn_in.description, TRUE, 0)
                                    EXCEPT !.vrr = fn_in.vrr]>>,
                  ret |-> <<>>]
    /\ UNCHANGED <<daemon, fn_in>>

\* Profile.from_dict(p.to_dict()) on the profile held: ret takes the outputs
\* of the profile read back.
CallFromDict ==
    /\ fn = "MonitorConfig"
    /\ fn' = "from_dict"
    /\ fn_out' = [fn_out EXCEPT
                    !.ret = ProfileFromDict(ProfileToDict(Profile("p", fn_out.monitors))).monitors]
    /\ UNCHANGED <<daemon, fn_in>>

DescNext ==
    \/ CallMonitorConfig
    \/ CallFromDict

DescSpec == DescInit /\ [][DescNext]_vars

\* The description is "PNP(" X ") " rest with the ")" at place k.
SplitsAt(d, k) ==
    /\ StartsWithPNP(d)
    /\ k \in 2..(Len(d) - 1)
    /\ d[k] = ")"
    /\ d[k + 1] = " "

\* "X rest" for that X and that rest.
UnwrappedAt(d, k) == SubSeq(d, 2, k - 1) \o SubSeq(d, k + 1, Len(d))

PNPForm(d) == \E k \in 1..Len(d) : SplitsAt(d, k)

\* C23: the description of a constructed output is the given one without
\* its " Unknown" suffix when it ends in one, "X rest" when it is
\* "PNP(X) rest", both when it has both shapes, and the given one when it
\* has neither.
C23_Normalization ==
    fn = "MonitorConfig" =>
        LET d == fn_in.description
            r == fn_out.monitors[1].description
        IN  /\ (EndsWithUnknown(d) /\ ~PNPForm(d)) => r = StripUnknown(d)
            /\ (PNPForm(d) /\ ~EndsWithUnknown(d)) =>
                  \E k \in 1..Len(d) : SplitsAt(d, k) /\ r = UnwrappedAt(d, k)
            /\ (PNPForm(d) /\ EndsWithUnknown(d)) =>
                  \E k \in 1..Len(d) :
                      SplitsAt(d, k) /\ r = StripUnknown(UnwrappedAt(d, k))
            /\ (~PNPForm(d) /\ ~EndsWithUnknown(d)) => r = d

\* C24: the outputs of Profile.from_dict(p.to_dict()) have the field values
\* of the outputs of p, the normalized description and the enum among them.
C24_DictRoundTrip ==
    fn = "from_dict" => fn_out.ret = fn_out.monitors

\* C25: when a best-effort step of apply_profile fails (the write of another
\* compositor's config, of the login-screen script or of the greeter
\* config) with the compositor reachable, the primary config has been
\* written, the reload command is still sent where the backend has one, and
\* an applied stored profile is recorded as the last applied one.
C25_BestEffortNeverBlocks ==
    (fx.raised /\ reach) =>
        /\ fx.wrote
        /\ SendsReload(ipc) => fx.reload
        /\ fx.kind = "profile" => last_applied_profile = fx.name

\* C28: on Hyprland, Sway and Niri alike, when a stored profile that passed
\* the safety check is handed to apply_profile with the daemon's options,
\* the compositor stays reachable and no later step of the backend fails,
\* the backend writes its config and reloads, and the profile is the last
\* applied one.
C28_UniformApply ==
    (fx.kind = "profile" /\ fx.called /\ ~fx.raised /\ reach) =>
        /\ fx.wrote
        /\ SendsReload(ipc) => fx.reload
        /\ last_applied_profile = fx.name

\* The outputs enabled in the layout handed to apply_profile.
HandedOn == {fx.handed[j].name : j \in {k \in 1..Len(fx.handed) : fx.handed[k].enabled}}

\* The first of them.
HandedFirst ==
    fx.handed[CHOOSE j \in 1..Len(fx.handed) :
                 /\ fx.handed[j].enabled
                 /\ \A k \in 1..(j - 1) : ~fx.handed[k].enabled].name

\* C26: after a successful apply of a stored profile, on Hyprland and Sway
\* every workspace of the snapshot taken before the write whose output is
\* not enabled in the applied layout has been moved to the first enabled
\* output of the layout and no other workspace has been moved; on Niri no
\* workspace has been moved.
C26_OrphansMigrated ==
    (fx.done /\ fx.kind = "profile") =>
        IF ipc = "Niri"
        THEN fx.moved = {}
        ELSE \A i \in 1..Len(fx.ws) :
                IF fx.ws[i].on \in HandedOn
                THEN \A m \in fx.moved : m.ws # fx.ws[i].name
                ELSE [ws |-> fx.ws[i].name, to |-> HandedFirst] \in fx.moved

(***************************************************************************)
(* Workspace migration: daemon.py, _migrate_orphaned_workspaces            *)
(* One call of the method, as _apply_best_profile makes it after its       *)
(* bookkeeping, on a layout, a snapshot and a set of failing move commands *)
(* drawn from bounded sets.                                                *)
(***************************************************************************)

\* A snapshot has at most this many workspaces.
MaxWs == 2

\* Snapshots: workspace i is on one of eDP-1, DP-1 and HDMI-A-1.
Snapshots(kind) ==
    UNION {{[i \in 1..n |-> Workspace(i, WsKey(kind), ArgName(f[i]))] :
               f \in [1..n -> {1, 3, 4}]} : n \in 0..MaxWs}

\* kind: the backend; migrate: the migrate_workspaces setting; monitors: the
\* layout applied; ws: the snapshot; fails: the positions in the snapshot of
\* the workspaces whose move command raises.
MigrateInputs ==
    UNION {[kind : {k}, migrate : BOOLEAN, monitors : LiveLists,
            ws : Snapshots(k), fails : SUBSET (1..MaxWs)] :
              k \in {"Hyprland", "Sway", "Niri"}}

\* The daemon listening, the apply of profile "p1" just recorded.
MigrateInit ==
    /\ fn = "none"
    /\ fn_in \in MigrateInputs
    /\ fn_out = NoOutput
    /\ conn = Outs
    /\ liveOn = [o \in Outs |-> TRUE]
    /\ reach = TRUE
    /\ lidReal = FALSE
    /\ env_marker = TRUE
    /\ backend = fn_in.kind
    /\ HAS_PYUDEV = FALSE
    /\ clamshell_mode = FALSE
    /\ profile_dir = 1
    /\ debounce_handle = 0
    /\ since_apply = 0
    /\ last_applied_profile = "p1"
    /\ prev_applied_profile = None
    /\ using_udev = FALSE
    /\ ipc = fn_in.kind
    /\ lid_closed = "None"
    /\ pc = "listen"
    /\ sleep_left = 0
    /\ timers = {}
    /\ tasks = <<>>
    /\ lid_calls = 0
    /\ runs = <<>>
    /\ events = 0
    /\ stream_ok = TRUE
    /\ lid_monitor = "starting"
    /\ fx = IdleFx
    /\ pending_ev = 0
    /\ since_ev = ModeDebounce
    /\ burst_ran = FALSE
    /\ moves = 0

\* "if not isinstance(ipc, NiriIPC) and settings.get(...):
\*      self._migrate_orphaned_workspaces(ipc, profile, ws_snapshot)"
CallMigrate ==
    /\ fn = "none"
    /\ fn' = "migrate"
    /\ fn_out' = [monitors |-> fn_in.monitors,
                  ret |-> IF Migrates(fn_in.kind, fn_in.migrate)
                          THEN MigrateOrphanedWorkspaces(fn_in.monitors, fn_in.ws,
                                                         fn_in.fails)
                          ELSE [attempted |-> {}, moved |-> {}]]
    /\ UNCHANGED <<daemon, fn_in>>

MigrateNext == CallMigrate

MigrateSpec == MigrateInit /\ [][MigrateNext]_vars

\* The workspaces of the call's snapshot that name, under "monitor", an
\* output that the layout does not enable, when the layout enables one.
CallOrphans ==
    {i \in 1..Len(fn_in.ws) :
        /\ \E j \in 1..Len(fn_in.monitors) : fn_in.monitors[j].enabled
        /\ fn_in.ws[i].key = "monitor"
        /\ \A j \in 1..Len(fn_in.monitors) :
              fn_in.monitors[j].enabled => fn_in.monitors[j].name # fn_in.ws[i].on}

\* C27: whichever move commands fail, the call returns, a command has been
\* sent for every orphaned workspace of the snapshot, every workspace whose
\* command did not fail has been moved, the last-applied profile, the
\* previous profile and the time of the last apply are as recorded, and the
\* daemon is listening.
C27_MoveFailureNotFatal ==
    (fn = "migrate" /\ Migrates(fn_in.kind, fn_in.migrate)) =>
        /\ fn_out.ret.attempted = CallOrphans
        /\ {m.ws : m \in fn_out.ret.moved} = CallOrphans \ fn_in.fails
        /\ last_applied_profile = "p1"
        /\ prev_applied_profile = None
        /\ since_apply = 0
        /\ pc = "listen"

\* The command for the first of two orphaned workspaces fails and the
\* second workspace is moved.
C27_Witness ==
    /\ fn = "migrate"
    /\ fn_in.kind = "Hyprland"
    /\ fn_in.migrate
    /\ fn_in.fails = {1}
    /\ fn_out.ret.attempted = {1, 2}
    /\ {m.ws : m \in fn_out.ret.moved} = {2}
    /\ pc = "listen"
    /\ last_applied_profile = "p1"

(***************************************************************************)
(* Backups: utils.py, backup_file and restore_backup                       *)
(* The primary config file of one backend and its .bak through a sequence  *)
(* of apply_profile, backup_file and restore_backup calls; the daemon      *)
(* stands still.                                                           *)
(***************************************************************************)

\* The calls of one sequence are at most this many, and the file contents
\* are 1..MaxContents.
MaxCalls == 3
MaxContents == 2

\* "not path.exists()": the content of a file that is not there.
Absent == 0

\* The backup kept once made: a .bak that exists is not overwritten.
BackupKeepsFirst(fs) ==
    IF fs.file = Absent \/ fs.bak # Absent THEN fs ELSE [fs EXCEPT !.bak = fs.file]

\* backup_file(path) on the pair of path and path.bak.
BackupFile(fs) ==
    IF fs.file = Absent THEN fs ELSE [fs EXCEPT !.bak = fs.file]

\* write_text(path, text)
WriteText(fs, text) == [fs EXCEPT !.file = text]

\* restore_backup(path): the files after the call, and the value returned.
RestoreBackup(fs) ==
    IF fs.bak = Absent THEN fs ELSE [file |-> fs.bak, bak |-> Absent]

RestoreBackupReturns(fs) == fs.bak # Absent

\* The files as a sequence starts on them, the .bak of an earlier session
\* included.
BackupInputs == [file : 0..MaxContents, bak : 0..MaxContents]

\* fn_out: the files (fs), the files before the last call (pre), the
\* content the last backup that was made copied and that no restore has
\* taken back since (backed), its value before the last call (pre_backed),
\* the value the last call returned (ret) and the calls so far (n).
BackupInit ==
    /\ AtRest
    /\ fn = "none"
    /\ fn_in \in BackupInputs
    /\ fn_out = [fs |-> fn_in, pre |-> fn_in, backed |-> Absent, pre_backed |-> Absent,
                 ret |-> FALSE, n |-> 0]

\* The head of apply_profile: backup_file(monitors_conf), then
\* write_text(monitors_conf, ...).
CallApplyProfile ==
    /\ fn_out.n < MaxCalls
    /\ \E text \in 1..MaxContents :
          fn_out' = [fs |-> WriteText(BackupFile(fn_out.fs), text),
                     pre |-> fn_out.fs,
                     backed |-> IF fn_out.fs.file = Absent THEN fn_out.backed
                                ELSE fn_out.fs.file,
                     pre_backed |-> fn_out.backed,
                     ret |-> TRUE, n |-> fn_out.n + 1]
    /\ fn' = "apply_profile"
    /\ UNCHANGED <<daemon, fn_in>>

CallBackupFile ==
    /\ fn_out.n < MaxCalls
    /\ fn_out' = [fs |-> BackupFile(fn_out.fs),
                  pre |-> fn_out.fs,
                  backed |-> IF fn_out.fs.file = Absent THEN fn_out.backed
                             ELSE fn_out.fs.file,
                  pre_backed |-> fn_out.backed,
                  ret |-> fn_out.fs.file # Absent, n |-> fn_out.n + 1]
    /\ fn' = "backup_file"
    /\ UNCHANGED <<daemon, fn_in>>

CallRestoreBackup ==
    /\ fn_out.n < MaxCalls
    /\ fn_out' = [fs |-> RestoreBackup(fn_out.fs),
                  pre |-> fn_out.fs,
                  backed |-> IF RestoreBackupReturns(fn_out.fs) THEN Absent
                             ELSE fn_out.backed,
                  pre_backed |-> fn_out.backed,
                  ret |-> RestoreBackupReturns(fn_out.fs), n |-> fn_out.n + 1]
    /\ fn' = "restore_backup"
    /\ UNCHANGED <<daemon, fn_in>>

BackupNext ==
    \/ CallApplyProfile
    \/ CallBackupFile
    \/ CallRestoreBackup

BackupSpec == BackupInit /\ [][BackupNext]_vars

\* C29: after an apply the .bak holds the content the config file had just
\* before that apply, whatever it held before; when the file did not exist
\* no backup is made (the .bak is as it was); and a restore_backup that
\* follows a backup puts the backed-up content back into the file, removes
\* the .bak and returns True.
C29_SingleGenerationBackup ==
    /\ fn = "apply_profile" =>
          /\ fn_out.pre.file # Absent => fn_out.fs.bak = fn_out.pre.file
          /\ fn_out.pre.file = Absent => fn_out.fs.bak = fn_out.pre.bak
          /\ fn_out.fs.file # Absent
    /\ (fn = "restore_backup" /\ fn_out.pre_backed # Absent) =>
          /\ fn_out.fs.file = fn_out.pre_backed
          /\ fn_out.fs.bak = Absent
          /\ fn_out.ret

\* Two applies on a file that held 1 (content 2, then content 1) and a
\* restore: the .bak held 2, not 1, and the restore puts 2 back.
C29_Witness ==
    /\ fn = "restore_backup"
    /\ fn_in.file = 1
    /\ fn_out.n = 3
    /\ fn_out.pre = [file |-> 1, bak |-> 2]
    /\ fn_out.fs = [file |-> 2, bak |-> Absent]

(***************************************************************************)
(* The Sway event stream: sway.py, connect_event_socket                    *)
(* The bytes the socket delivers after the subscribe request are the       *)
(* acknowledgement and a bounded sequence of messages; the generator reads *)
(* them and _listen arms the timer for every event it is handed.           *)
(***************************************************************************)

\* The messages after the acknowledgement are at most this many, and a
\* payload has at most this many bytes.
MaxMsgs == 2
MaxPayload == 2

HEADER_SIZE == 14

\* A 32-bit type code is <<high bit, low 31 bits>>: 0x80000001 is <<1, 1>>.
IPC_GET_WORKSPACES == <<0, 1>>
IPC_SUBSCRIBE == <<0, 2>>
EVENT_OUTPUT == <<1, 1>>

\* The type codes on the wire: the output event, the workspace event
\* (0x80000000), and two reply codes, one of them with the low bits of the
\* output event.
MsgTypes == {EVENT_OUTPUT, <<1, 0>>, IPC_GET_WORKSPACES, IPC_SUBSCRIBE}

\* The "change" member of a payload; "" when the payload has none.
Changes == {"new", "del", "unspecified", ""}

Messages == [type : MsgTypes, change : Changes, len : 1..MaxPayload]

\* The reply to SUBSCRIBE.
Ack == [type |-> IPC_SUBSCRIBE, change |-> "", len |-> 1]

\* What the socket delivers: the acknowledgement, then the messages.
StreamInputs ==
    UNION {{<<Ack>> \o f : f \in [1..n -> Messages]} : n \in 0..MaxMsgs}

\* Byte k of message m is <<m, k>>: the header is bytes 1.._HEADER_SIZE, the
\* payload the len bytes after it.
Wire(msgs, m) == [k \in 1..(HEADER_SIZE + msgs[m].len) |-> <<m, k>>]

RECURSIVE Bytes(_, _)
Bytes(msgs, m) ==
    IF m > Len(msgs) THEN <<>> ELSE Wire(msgs, m) \o Bytes(msgs, m + 1)

\* reader.readexactly(n) at offset pos succeeds.
CanRead(bytes, pos, n) == pos + n - 1 <= Len(bytes)

ReadExactly(bytes, pos, n) == SubSeq(bytes, pos, pos + n - 1)

\* The bytes are the whole header of one message.
IsHeader(hdr) ==
    /\ Len(hdr) = HEADER_SIZE
    /\ \A k \in 1..HEADER_SIZE : hdr[k] = <<hdr[1][1], k>>

\* struct.unpack(_HEADER_FMT, header): the length and the type code of the
\* message whose header the bytes are; bytes that are no header unpack to
\* some numbers, here 0 and IPC_SUBSCRIBE.
Unpack(msgs, hdr) ==
    IF IsHeader(hdr)
    THEN [len |-> msgs[hdr[1][1]].len, type |-> msgs[hdr[1][1]].type]
    ELSE [len |-> 0, type |-> IPC_SUBSCRIBE]

\* json.loads(payload).get("change", ""): the change member of the message
\* whose whole payload the bytes are, "" for anything else.
ChangeOf(msgs, payload) ==
    IF /\ Len(payload) > 0
       /\ Len(payload) = msgs[payload[1][1]].len
       /\ \A k \in 1..Len(payload) : payload[k] = <<payload[1][1], HEADER_SIZE + k>>
    THEN msgs[payload[1][1]].change
    ELSE ""

\* The filter without its test of the change member.
YieldsAnyOutputEvent(type, change) == type = EVENT_OUTPUT

\* "if evt_type == EVENT_OUTPUT: ... if change in ("new", "del"): yield"
Yields(type, change) == type = EVENT_OUTPUT /\ change \in {"new", "del"}

\* fn_out: the offset of the next byte to read (pos), the messages read
\* after the acknowledgement (read), the payload owners of the events
\* yielded, in order (yielded), and the calls of _schedule_apply that
\* _listen made (armed).
StreamInit ==
    /\ AtRest
    /\ fn = "none"
    /\ fn_in \in StreamInputs
    /\ fn_out = [pos |-> 1, read |-> 0, yielded |-> <<>>, armed |-> 0]

\* The two reads that consume the subscribe ACK.
ReadAck ==
    /\ fn = "none"
    /\ CanRead(Bytes(fn_in, 1), 1, HEADER_SIZE)
    /\ LET len == Unpack(fn_in, ReadExactly(Bytes(fn_in, 1), 1, HEADER_SIZE)).len
       IN  /\ CanRead(Bytes(fn_in, 1), 1 + HEADER_SIZE, len)
           /\ fn_out' = [fn_out EXCEPT !.pos = 1 + HEADER_SIZE + len]
    /\ fn' = "subscribed"
    /\ UNCHANGED <<daemon, fn_in>>

\* One turn of the while loop: the header, the payload, and the yield to
\* _listen, which calls _schedule_apply.
ReadEvent ==
    /\ fn \in {"subscribed", "event"}
    /\ CanRead(Bytes(fn_in, 1), fn_out.pos, HEADER_SIZE)
    /\ LET bytes == Bytes(fn_in, 1)
           hdr == Unpack(fn_in, ReadExactly(bytes, fn_out.pos, HEADER_SIZE))
           payload == ReadExactly(bytes, fn_out.pos + HEADER_SIZE, hdr.len)
           yields == Yields(hdr.type, ChangeOf(fn_in, payload))
       IN  /\ CanRead(bytes, fn_out.pos + HEADER_SIZE, hdr.len)
           /\ fn_out' = [pos |-> fn_out.pos + HEADER_SIZE + hdr.len,
                         read |-> fn_out.read + 1,
                         yielded |-> IF yields
                                     THEN Append(fn_out.yielded, payload[1][1])
                                     ELSE fn_out.yielded,
                         armed |-> IF yields THEN fn_out.armed + 1 ELSE fn_out.armed]
    /\ fn' = "event"
    /\ UNCHANGED <<daemon, fn_in>>

\* readexactly meets the end of the stream and raises; finally closes the
\* writer.
ReadEnd ==
    /\ fn \in {"subscribed", "event"}
    /\ ~CanRead(Bytes(fn_in, 1), fn_out.pos, HEADER_SIZE)
    /\ fn' = "closed"
    /\ UNCHANGED <<daemon, fn_in, fn_out>>

StreamNext ==
    \/ ReadAck
    \/ ReadEvent
    \/ ReadEnd

StreamSpec == StreamInit /\ [][StreamNext]_vars

\* The offset of the first byte of message m of the call's stream.
StartOf(m) ==
    1 + HEADER_SIZE * (m - 1)
      + Cardinality({<<j, k>> \in (1..Len(fn_in)) \X (1..MaxPayload) :
                        j < m /\ k <= fn_in[j].len})

\* C30: of the messages read so far, those handed to _listen are exactly
\* the output events whose change is "new" or "del", in the order of the
\* stream; every message read, handed on or not, was consumed whole (the
\* next read starts at the first byte of the next message); and the timer
\* was armed once for each event handed on, so never for an output event
\* with change "unspecified".
C30_OnlyNewAndDel ==
    fn \in {"subscribed", "event", "closed"} =>
        /\ fn_out.pos = StartOf(fn_out.read + 2)
        /\ \A i \in 1..Len(fn_out.yielded) :
              /\ fn_out.yielded[i] \in 2..(fn_out.read + 1)
              /\ \A j \in 1..(i - 1) : fn_out.yielded[j] < fn_out.yielded[i]
        /\ \A m \in 2..(fn_out.read + 1) :
              (\E i \in 1..Len(fn_out.yielded) : fn_out.yielded[i] = m)
                 <=> (/\ fn_in[m].type = EVENT_OUTPUT
                      /\ fn_in[m].change \in {"new", "del"})
        /\ fn_out.armed = Len(fn_out.yielded)
        /\ fn = "closed" => fn_out.read + 1 = Len(fn_in)

\* An output event with change "unspecified" and two payload bytes, then one
\* with change "new": only the second is handed on and arms the timer.
C30_Witness ==
    /\ fn = "closed"
    /\ Len(fn_in) = 3
    /\ fn_in[2] = [type |-> EVENT_OUTPUT, change |-> "unspecified", len |-> 2]
    /\ fn_in[3].type = EVENT_OUTPUT
    /\ fn_in[3].change = "new"
    /\ fn_out.yielded = <<3>>
    /\ fn_out.armed = 1

(***************************************************************************)
(* niri.py: connect_event_socket, the event stream of the Niri fallback.   *)
(* The socket delivers a bounded sequence of lines after the "EventStream" *)
(* request; the generator reads them and _listen arms the timer for every  *)
(* event it is handed.                                                     *)
(***************************************************************************)

\* The stream has at most this many lines, and a WorkspacesChanged event at
\* most this many workspaces.
MaxLines == 3
MaxEventWs == 2

\* The "output" member of one workspace: JSON null, the empty string, or the
\* name of an output.
WsOutputValues == {"null", "", "eDP-1", "DP-1"}

\* The lines of the stream: an empty line, text that is no JSON, a JSON
\* list, an event of another kind, a "WorkspacesChanged" member that is
\* null, and the WorkspacesChanged events.
NiriLines ==
    [form : {"blank", "notjson", "list", "other", "null"}, workspaces : {<<>>}]
    \cup [form : {"WorkspacesChanged"},
          workspaces : UNION {[1..n -> WsOutputValues] : n \in 0..MaxEventWs}]

NiriInputs == UNION {[1..n -> NiriLines] : n \in 0..MaxLines}

\* The line passes "if not text", json.loads and isinstance(event, dict),
\* and event.get("WorkspacesChanged") is not None.
HasWsData(line) == line.form = "WorkspacesChanged"

\* {ws.get("output", "") for ws in workspaces if ws.get("output")}
EventOutputs(workspaces) ==
    {workspaces[i] : i \in {j \in 1..Len(workspaces) : workspaces[j] \notin {"null", ""}}}

\* known_outputs is <<>> for None and <<S>> for the set S.
\* The filter yielding the first WorkspacesChanged event as well.
NiriYieldsFromFirst(known_outputs, outputs) ==
    known_outputs = <<>> \/ <<outputs>> # known_outputs

\* "if known_outputs is None: ... elif outputs != known_outputs: ... yield"
NiriYields(known_outputs, outputs) ==
    known_outputs # <<>> /\ <<outputs>> # known_outputs

\* known_outputs after the event: both branches that assign store outputs;
\* the branch that assigns nothing is the one where they are equal.
KnownAfter(known_outputs, outputs) ==
    IF known_outputs = <<>> \/ <<outputs>> # known_outputs
    THEN <<outputs>>
    ELSE known_outputs

\* fn_out: the lines read (read), known_outputs (known), the lines whose
\* event was yielded, in order (yielded), and the calls of _schedule_apply
\* that _listen made (armed).
NiriInit ==
    /\ AtRest
    /\ fn = "none"
    /\ fn_in \in NiriInputs
    /\ fn_out = [read |-> 0, known |-> <<>>, yielded |-> <<>>, armed |-> 0]

\* One turn of the while loop on a line that is there.
NiriReadLine ==
    /\ fn \in {"none", "line"}
    /\ fn_out.read < Len(fn_in)
    /\ LET line == fn_in[fn_out.read + 1]
           outputs == EventOutputs(line.workspaces)
           yields == HasWsData(line) /\ NiriYields(fn_out.known, outputs)
       IN  fn_out' = [read |-> fn_out.read + 1,
                      known |-> IF HasWsData(line)
                                THEN KnownAfter(fn_out.known, outputs)
                                ELSE fn_out.known,
                      yielded |-> IF yields
                                  THEN Append(fn_out.yielded, fn_out.read + 1)
                                  ELSE fn_out.yielded,
                      armed |-> IF yields THEN fn_out.armed + 1 ELSE fn_out.armed]
    /\ fn' = "line"
    /\ UNCHANGED <<daemon, fn_in>>

\* readline() returns b"": the loop breaks and finally closes the writer.
NiriReadEof ==
    /\ fn \in {"none", "line"}
    /\ fn_out.read = Len(fn_in)
    /\ fn' = "closed"
    /\ UNCHANGED <<daemon, fn_in, fn_out>>

NiriNext ==
    \/ NiriReadLine
    \/ NiriReadEof

NiriSpec == NiriInit /\ [][NiriNext]_vars

\* The output names the workspaces of line m of the call's stream refer to.
Referenced(m) ==
    {o \in WsOutputValues \ {"null", ""} :
        \E i \in 1..Len(fn_in[m].workspaces) : fn_in[m].workspaces[i] = o}

\* The WorkspacesChanged events of the stream before line m.
EarlierWs(m) == {j \in 1..(m - 1) : fn_in[j].form = "WorkspacesChanged"}

\* C31: of the lines read so far, those handed to _listen are exactly the
\* WorkspacesChanged events that are not the first one of the stream and
\* whose set of output names differs from the set of the WorkspacesChanged
\* event before them; every other line yields nothing, and the timer is
\* armed once for each event handed on.
C31_YieldsOnChangedOutputSet ==
    /\ \A i \in 1..Len(fn_out.yielded) :
          /\ fn_out.yielded[i] \in 1..fn_out.read
          /\ \A j \in 1..(i - 1) : fn_out.yielded[j] < fn_out.yielded[i]
    /\ \A m \in 1..fn_out.read :
          (\E i \in 1..Len(fn_out.yielded) : fn_out.yielded[i] = m)
             <=> (/\ fn_in[m].form = "WorkspacesChanged"
                  /\ EarlierWs(m) # {}
                  /\ Referenced(m) # Referenced(Max(EarlierWs(m))))
    /\ fn_out.armed = Len(fn_out.yielded)

\* Three WorkspacesChanged events: eDP-1 alone, eDP-1 with DP-1, and eDP-1
\* with a workspace that names no output. The first is the baseline, the
\* second and the third are handed on.
C31_Witness ==
    /\ fn = "closed"
    /\ Len(fn_in) = 3
    /\ \A m \in 1..3 : fn_in[m].form = "WorkspacesChanged"
    /\ fn_in[1].workspaces = <<"eDP-1">>
    /\ fn_in[2].workspaces = <<"eDP-1", "DP-1">>
    /\ fn_in[3].workspaces = <<"null", "eDP-1">>
    /\ fn_out.yielded = <<2, 3>>
    /\ fn_out.armed = 2

(***************************************************************************)
(* daemon.py: _detect_backend, called again and again by run() while the   *)
(* compositors of the machine come and go.                                 *)
(***************************************************************************)

\* The detections of one behaviour are at most this many, and so are the
\* changes of the runtime directory.
MaxDetects == 3

Kinds == {"Hyprland", "Niri", "Sway"}

\* The environment marker of a compositor.
MarkerOf(kind) ==
    CASE kind = "Hyprland" -> "HYPRLAND_INSTANCE_SIGNATURE"
      [] kind = "Niri" -> "NIRI_SOCKET"
      [] OTHER -> "SWAYSOCK"

Markers == {MarkerOf(k) : k \in Kinds}

\* The environment the daemon is started in (the markers that are set) and
\* the compositors whose socket is in the runtime directory.
DetectInputs == [environ : SUBSET Markers, sockets : SUBSET Kinds]

\* The order of the three tests, of the markers and of the scan alike.
FirstKind(S) ==
    IF "Hyprland" \in S THEN "Hyprland" ELSE IF "Niri" \in S THEN "Niri" ELSE "Sway"

\* The detection reading the environment and the runtime directory only.
DetectBackendReadOnly(environ, sockets) ==
    IF \E k \in Kinds : MarkerOf(k) \in environ
    THEN [ret |-> FirstKind({k \in Kinds : MarkerOf(k) \in environ}), environ |-> environ]
    ELSE IF sockets # {}
    THEN [ret |-> FirstKind(sockets), environ |-> environ]
    ELSE [ret |-> None, environ |-> environ]

\* _detect_backend(): the backend returned and os.environ as the call leaves
\* it. A socket found by the scan is stored in the compositor's marker.
DetectBackendOn(environ, sockets) ==
    IF \E k \in Kinds : MarkerOf(k) \in environ
    THEN [ret |-> FirstKind({k \in Kinds : MarkerOf(k) \in environ}), environ |-> environ]
    ELSE IF sockets # {}
    THEN [ret |-> FirstKind(sockets),
          environ |-> environ \cup {MarkerOf(FirstKind(sockets))}]
    ELSE [ret |-> None, environ |-> environ]

\* fn_in is the environment at the start; fn_out holds os.environ and the
\* runtime directory as they are now (environ, sockets), the detections
\* made (calls) and the number of changes of the runtime directory.
DetectInit ==
    /\ AtRest
    /\ fn = "none"
    /\ fn_in \in DetectInputs
    /\ fn_out = [environ |-> fn_in.environ, sockets |-> fn_in.sockets,
                 calls |-> <<>>, changes |-> 0]

\* run() calls _detect_backend().
CallDetectBackend ==
    /\ Len(fn_out.calls) < MaxDetects
    /\ fn' = "_detect_backend"
    /\ fn_out' = [fn_out EXCEPT
                    !.environ = DetectBackendOn(fn_out.environ, fn_out.sockets).environ,
                    !.calls = Append(@, [before |-> fn_out.environ,
                                         sockets |-> fn_out.sockets,
                                         ret |-> DetectBackendOn(fn_out.environ, fn_out.sockets).ret,
                                         after |-> DetectBackendOn(fn_out.environ, fn_out.sockets).environ])]
    /\ UNCHANGED <<daemon, fn_in>>

\* A compositor starts or exits: its socket appears in the runtime
\* directory or leaves it.
RuntimeDirChange ==
    /\ fn_out.changes < MaxDetects
    /\ \E k \in Kinds :
          fn_out' = [fn_out EXCEPT
                        !.sockets = IF k \in @ THEN @ \ {k} ELSE @ \cup {k},
                        !.changes = @ + 1]
    /\ fn' = "changed"
    /\ UNCHANGED <<daemon, fn_in>>

DetectNext ==
    \/ CallDetectBackend
    \/ RuntimeDirChange

DetectSpec == DetectInit /\ [][DetectNext]_vars

\* C32: a detection leaves the environment as it found it, and two
\* detections of one daemon that find the same sockets in the runtime
\* directory return the same backend, whatever the detections before them
\* returned.
C32_DetectionIsPure ==
    /\ \A i \in 1..Len(fn_out.calls) : fn_out.calls[i].after = fn_out.calls[i].before
    /\ \A i, j \in 1..Len(fn_out.calls) :
          fn_out.calls[i].sockets = fn_out.calls[j].sockets
             => fn_out.calls[i].ret = fn_out.calls[j].ret

(***************************************************************************)
(* Properties of the daemon's timing and bookkeeping                       *)
(***************************************************************************)

\* The settle time of the mode in use, in ticks: "UDEV_SETTLE_S" and
\* "settle_s" of _schedule_apply (0 where the mode has none).
SettleWindow ==
    IF using_udev
    THEN Ticks(UDEV_SETTLE_S * 1000)
    ELSE IF ipc = "Niri"
    THEN Ticks((NIRI_SETTLE_BASE + NIRI_SETTLE_S_DEFAULT) * 1000)
    ELSE 0

\* A run of _apply_best_profile that a timer started begins in this step.
TimerRunStarts ==
    /\ Len(runs') = Len(runs) + 1
    /\ ~runs'[Len(runs')].force

\* C33: in the Niri modes no run started by a timer begins less than the
\* settle time (5 s with udev, 10 + 15 s on the event stream) after the last
\* apply, and an event consumed inside the settle window arms the one timer
\* for the end of the window.
C33_SettleWindow ==
    [][/\ TimerRunStarts => since_apply >= SettleWindow
       /\ (pending_ev' = pending_ev + 1 /\ since_apply < SettleWindow) =>
             /\ Cardinality(timers') = 1
             /\ \A t \in timers' : t.left = SettleWindow - since_apply]_vars

\* C34: however a listening session ends, run() goes to its retry sleep of
\* 5 s, and the next detection is made only once that sleep is over.
C34_AlwaysBacksOff ==
    [][/\ (InSession /\ ~InSession') =>
             (pc' = "sleep" /\ sleep_left' = Ticks(RETRY_SLEEP_S * 1000))
       /\ (pc # "detect" /\ pc' = "detect") => (pc = "sleep" /\ sleep_left = 0)]_vars

\* C35: a non-forced run whose match is the profile applied before the last
\* one and not the last one, 30 s or more after the last apply, is not
\* suppressed: the layout is handed to the backend (unless the safety step
\* finds no output to enable or the workspace query fails); and a run that
\* the loop detection skips leaves the time of the last apply as it was.
C35_LoopWindowBounded ==
    /\ (/\ Matched
        /\ ~fx.force
        /\ fx.name = fx.pre_prev
        /\ fx.name # fx.pre_last
        /\ fx.pre_since >= Ticks(LOOP_WINDOW_S * 1000))
       => /\ fx.kind \in {"profile", "unsafe"}
          /\ (fx.kind = "profile" /\ fx.snap) => (fx.called /\ fx.handed # <<>>)
    /\ fx.kind = "loop" => since_apply = fx.pre_since

\* "docked" is applied again 30 s after "laptop" replaced it.
C35_Witness ==
    /\ fx.kind = "profile"
    /\ ~fx.force
    /\ fx.name = fx.pre_prev
    /\ fx.name # fx.pre_last
    /\ fx.pre_since >= Ticks(LOOP_WINDOW_S * 1000)
    /\ fx.done
    /\ last_applied_profile = fx.name

\* The run that ends in this step met an exception: its output query, its
\* workspace query or the backend's apply_profile raised.
AttemptRaised ==
    /\ fx'.kind # "idle"
    /\ \/ fx'.kind = "failed"
       \/ fx'.kind \in {"profile", "undo", "emergency"} /\ ~fx'.done

MaxApplies == 2

\* The JSON files of the store at the start: one of the three directories,
\* or one file "p1" with any stored layout.
StoreInputs ==
    {ProfileFiles(d) : d \in {1, 2, 3}}
    \cup {<<ProfileToDict(Profile("p1", l))>> : l \in StoredLayouts}

\* ProfileManager.list_all on the files.
ListAllOf(files) == [i \in 1..Len(files) |-> ProfileFromDict(files[i])]

\* The Profile objects of the list that list_all returned, as the run
\* leaves them. With clamshell mode on the run works on a clone made by
\* Profile.from_dict(profile.to_dict()); without it the safety step sets
\* m.enabled on the object taken from the list.
HeldAfter(profiles, pi, d, clamshell) ==
    IF pi # 0 /\ ~clamshell /\ d.kind = "profile"
    THEN [profiles EXCEPT ![pi].monitors = d.layout]
    ELSE profiles

\* The run saving the objects it holds when it ends.
StoreAfterSaving(files, held) == [i \in 1..Len(held) |-> ProfileToDict(held[i])]

\* The files after the run: _apply_best_profile calls neither save nor
\* delete, and the list that list_all returned is dropped with the run.
StoreAfter(files, held) == files

\* The layout the run hands to the backend when neither the same-profile
\* rule nor the loop detection ends it: the matched profile after the
\* clamshell and safety steps.
Unskipped(pi, monitors, profiles, clamshell, lid) ==
    DecideOn(pi, monitors, TRUE, profiles, clamshell, lid, None, None, ElapsedCap).layout

\* fn_out: the files now (store), the last and the previous applied
\* profile, the layout of the latest apply_profile call (written), and the
\* runs made (calls): the index of the matched profile, its outputs as
\* list_all loaded them (seen), the decision, the layout written before the
\* run (before) and the layout the run hands on unless it is skipped.
StoreInit ==
    /\ AtRest
    /\ fn = "none"
    /\ fn_in \in StoreInputs
    /\ fn_out = [store |-> fn_in, last |-> None, prev |-> None, written |-> <<>>,
                 calls |-> <<>>]

\* One run of _apply_best_profile whose calls succeed, on some live outputs,
\* clamshell setting and lid state, more than 30 s after the last apply.
CallApplyBestProfile ==
    /\ Len(fn_out.calls) < MaxApplies
    /\ \E monitors \in LiveLists, force, clamshell \in BOOLEAN,
          lid \in {"None", "True", "False"} :
          LET profiles == ListAllOf(fn_out.store)
              pi == FindBestMatch(Fingerprint(monitors), profiles, monitors, FALSE)
              d == DecideOn(pi, monitors, force, profiles, clamshell, lid,
                            fn_out.last, fn_out.prev, ElapsedCap)
          IN  fn_out' = [store |-> StoreAfter(fn_out.store,
                                              HeldAfter(profiles, pi, d, clamshell)),
                         last |-> IF d.kind = "profile" THEN d.name ELSE fn_out.last,
                         prev |-> IF d.kind = "profile" THEN fn_out.last ELSE fn_out.prev,
                         written |-> IF d.kind \in {"profile", "undo", "emergency"}
                                     THEN d.layout ELSE fn_out.written,
                         calls |-> Append(fn_out.calls,
                                          [pi |-> pi,
                                           seen |-> IF pi = 0 THEN <<>>
                                                    ELSE profiles[pi].monitors,
                                           clamshell |-> clamshell,
                                           d |-> d,
                                           before |-> fn_out.written,
                                           unskipped |-> Unskipped(pi, monitors, profiles,
                                                                   clamshell, lid)])]
    /\ fn' = "_apply_best_profile"
    /\ UNCHANGED <<daemon, fn_in>>

StoreNext == CallApplyBestProfile

StoreSpec == StoreInit /\ [][StoreNext]_vars

\* C37: after any sequence of runs the files of the store are the ones the
\* daemon started with, and every run that matches a stored profile loads
\* it with the enabled flags that were saved, whatever the clamshell and
\* safety steps of earlier runs did to the layout they applied.
C37_StoreReadOnly ==
    /\ fn_out.store = fn_in
    /\ \A k \in 1..Len(fn_out.calls) :
          fn_out.calls[k].pi # 0 =>
             fn_out.calls[k].seen = ProfileFromDict(fn_in[fn_out.calls[k].pi]).monitors

\* Two runs match the same stored profile; the first applied it with an
\* output that the safety step enabled, without clamshell mode, and the
\* second loads it with the flags that were saved.
C37_Witness ==
    /\ Len(fn_out.calls) = 2
    /\ fn_out.calls[1].pi # 0
    /\ fn_out.calls[2].pi = fn_out.calls[1].pi
    /\ ~fn_out.calls[1].clamshell
    /\ fn_out.calls[1].d.kind = "profile"
    /\ fn_out.calls[1].d.layout # fn_out.calls[1].seen
    /\ fn_out.calls[2].seen = fn_out.calls[1].seen

\* C38: a run that the same-profile rule or the loop detection ends without
\* an apply would have handed the backend the layout that the daemon wrote
\* last: the name in _last_applied_profile stands for that layout.
C38_LastAppliedIsLastWritten ==
    \A k \in 1..Len(fn_out.calls) :
        fn_out.calls[k].d.kind \in {"same", "loop"}
           => fn_out.calls[k].unskipped = fn_out.calls[k].before

(***************************************************************************)
(* The daemon on a machine whose compositor stays up and whose backend     *)
(* calls all succeed.                                                      *)
(***************************************************************************)

\* A run ends with none of its calls failing and the compositor still up.
CleanEndRun ==
    /\ EndRun
    /\ fx'.kind # "failed"
    /\ ~fx'.raised
    /\ reach'

\* The steps of the event loop on such a machine.
CleanLoopStep ==
    \/ Detect \/ Connect \/ ConsumeEvent
    \/ TimerFire \/ TaskRun \/ LidCall \/ Tick

CleanNext ==
    \/ CleanLoopStep
    \/ CleanEndRun
    \/ Hotplug
    \/ Churn
    \/ LidInit
    \/ LidToggle

\* A docked laptop with its lid open, Sway or Niri running.
CleanInit ==
    /\ DockedInit
    /\ backend \in {"Sway", "Niri"}

\* The loop keeps running its steps, the lid-monitor thread gets to its
\* first query, and a run that has started ends.
CleanSpec ==
    /\ CleanInit /\ [][CleanNext]_vars
    /\ WF_vars(CleanLoopStep) /\ WF_vars(LidInit) /\ []<>(runs = <<>>)

\* Nothing is pending: the daemon listens with no timer, task, callback,
\* run or buffered event.
Quiet ==
    /\ pc = "listen"
    /\ timers = {} /\ tasks = <<>> /\ runs = <<>>
    /\ events = 0 /\ lid_calls = 0

\* The index of the profile find_best_match returns for the outputs
\* connected now, 0 for None.
MatchNow ==
    FindBestMatch(Fingerprint(GetMonitors), ListAll(profile_dir), GetMonitors, FALSE)

\* C39: from some moment on, whenever nothing is pending and a stored
\* profile matches the connected outputs, that profile is the one the
\* daemon applied last.
C39_Converges ==
    <>[](Quiet /\ MatchNow # 0
            => last_applied_profile = ListAll(profile_dir)[MatchNow].name)

\* C40: between the end of one listening session and the start of the next
\* the callback of a lid notification arms no timer, and no run of
\* _apply_best_profile is started by a timer armed outside a session.
C40_NoApplyOutsideSession ==
    [][/\ (lid_calls' = lid_calls - 1 /\ ~InSession) => timers' \subseteq timers
       /\ \A i \in 1..Len(runs') : runs'[i].sess # "out"]_vars

====
